---- MODULE Spec2Model ----
(***************************************************************************)
(* Model of the conversation core of eclipse-bot:                          *)
(*   - AutoCompactor      (src/eclipse-bot/src/core/compactor.py)          *)
(*   - CustomSqliteSaver  (src/eclipse-bot/src/core/checkpointer.py)       *)
(*   - SlackStreamer      (src/eclipse-bot/src/core/slack_streamer.py)     *)
(*   - handle_event_trigger (src/eclipse-bot/src/core/dispatcher.py)       *)
(*   - WorkflowEngine     (src/eclipse-bot/src/core/workflow_engine.py)    *)
(* The specifications SpecCompactor, SpecCompactorNotice,                  *)
(* SpecCompactorTools, SpecStore, SpecStoreTrimmer, SpecStoreAsync,        *)
(* SpecStreamer, SpecRestart, SpecSpaced, SpecStatus, SpecDispatcher and   *)
(* SpecWorkflow share the module, each one moving only its own variables;  *)
(* SpecRouting runs the streamer and the dispatcher side by side.          *)
(***************************************************************************)
EXTENDS Integers, Sequences, FiniteSets, TLC

VARIABLES
    \* ---- AutoCompactor (one instance, one invoke at a time) ----
    max_tokens,      \* self.max_tokens
    recent_buffer,   \* self.recent_buffer
    cPc,             \* "ready" | "returned"
    cIn,             \* the argument `messages` of the current invoke
    cOut,            \* the list invoke returned
    cCall,           \* what happened inside the last invoke (record, see Invoke)
    cPrev,           \* estimate and estimator of the invoke before it on the same history
    cRound           \* how many times invoke has been applied to this history

compVars == <<max_tokens, recent_buffer, cPc, cIn, cOut, cCall, cPrev, cRound>>
compOnly == <<cPc, cIn, cOut, cCall, cPrev, cRound>>

VARIABLES
    \* ---- CustomSqliteSaver over one shared sqlite connection ----
    context_manager, \* self.context_manager: "none" | "compactor" | "trimmer"
    table,           \* the rows of table `checkpoints`
    wPc,             \* per writer: "idle" | "ret"  (outside put | INSERT committed, not yet returned)
    wArg,            \* per writer in put: the thread id and checkpoint id it was called with
    rArg,            \* per reader: config["configurable"] of its last get_tuple
    rRet,            \* per reader: what its last get_tuple returned
    \* history of the run, read by the properties only
    puts,            \* number of puts executed so far
    lastPut,         \* per (thread, revision): the latest executed put
    replaced,        \* some put has replaced a row by one with different content
    lastDone         \* per thread: revision of the most recently completed put, 0 if none

storeVars == <<context_manager, table, wPc, wArg, rArg, rRet, puts, lastPut, replaced, lastDone>>

VARIABLES
    \* ---- SlackStreamer (one instance) and the clock it reads ----
    streamer,                \* self.streamer: 0 is None, 1 the handle get_streamer gave
    buffer,                  \* self.buffer
    last_update_time,        \* self.last_update_time
    response_started,        \* self.response_started
    last_status_update_time, \* self.last_status_update_time
    now,                     \* time.time(), in tenths of a second
    rest,                    \* the part of the model's response not yet delivered as a token
    \* the transport, as the streamer's calls reach it
    appends,                 \* the markdown_text of every append call, in order
    statusCalls,             \* every set_assistant_status call, in order
    \* history of the run, read by the properties only
    tokens,                  \* the non-empty tokens given to handle_token, in order, each with
                             \* whether _flush_buffer ran on it and whether a handle was bound
    minorCalls,              \* every update_status(status_text=...) call: when, and whether it reached the transport
    majorCalls,              \* number of update_status(messages=[...]) calls
    withheld,                \* the latest run of _flush_buffer returned from the partial-match guard
    stopCalls,               \* number of stop calls
    closed,                  \* the handles whose stop was called
    lastOp                   \* what the last handle_token, update_status or stop did (see NoOp)

streamVars == <<streamer, buffer, last_update_time, response_started,
                last_status_update_time, now, rest, appends, statusCalls,
                tokens, minorCalls, majorCalls, withheld, stopCalls, closed, lastOp>>

VARIABLES
    \* ---- handle_event_trigger (one turn) and the clock it reads ----
    dPc,             \* "idle" | "loop" | "returned" | "raised"
    dMsgTs,          \* msg_ts = event.get("ts") is present
    dBuffer,         \* buffer
    dLastUpdate,     \* last_update_time
    dLastStatus,     \* last_status_update_time
    dStarted,        \* response_started
    dNow,            \* time.time()
    dRest,           \* the pieces the agent has still to stream
    dSdk,            \* streamer._streamer: 0 is None, 1 the SDK chat stream
    dAppends,        \* history: the calls of streamer.append, in order
    dExit            \* history: what the exit path of the turn did

dispVars == <<dPc, dMsgTs, dBuffer, dLastUpdate, dLastStatus, dStarted, dNow,
              dRest, dSdk, dAppends, dExit>>

VARIABLES
    \* ---- WorkflowEngine (one engine) ----
    wfChain,         \* the nodes registered, in the order of the edges
    wfCompiled,      \* self._compiled is set
    wfPc,            \* "idle" | "returned" | "raised"
    wfForm,          \* the form last called: "run" | "run_sync"
    wfInitial,       \* the initial_state of the last call
    wfResult         \* the WorkflowResult of the last call

wfVars == <<wfChain, wfCompiled, wfPc, wfForm, wfInitial, wfResult>>

vars == <<compVars, storeVars, streamVars, dispVars, wfVars>>

(***************************************************************************)
(* Bounds of the model.                                                    *)
(***************************************************************************)
MaxMsgs == 3          \* longest message list given to invoke
MaxRecent == 2        \* largest recent_messages_buffer configured
MaxNative == 2        \* largest count the model-native tokenizer reports
MaxRounds == 2        \* how often one history is loaded (invoke applied) in a row
MaxRev == 2           \* checkpoint ids are 1..MaxRev
MaxPuts == 2          \* puts executed in one run

(***************************************************************************)
(* Messages.  A message is a record [type, content]; type is the           *)
(* langchain message class (SystemMessage -> "system", ...).               *)
(***************************************************************************)
Msg(t, c) == [type |-> t, content |-> c]

MessagePool ==
    { Msg("system", "sys"), Msg("human", "hello"),
      Msg("ai", "answer!"), Msg("human", "ok") }

RECURSIVE SeqsUpTo(_, _)
SeqsUpTo(S, n) ==
    IF n = 0 THEN { <<>> }
    ELSE LET shorter == SeqsUpTo(S, n - 1)
         IN shorter \cup { Append(s, x) : s \in { q \in shorter : Len(q) = n - 1 }, x \in S }

Histories == SeqsUpTo(MessagePool, MaxMsgs)

RECURSIVE SumLen(_)
SumLen(s) == IF s = <<>> THEN 0 ELSE Len(Head(s).content) + SumLen(Tail(s))

\* Python slices with a negated count: -0 is 0, so s[:-0] is empty and s[-0:] is s.
PySliceUntilNeg(s, k) == IF k = 0 THEN <<>> ELSE SubSeq(s, 1, Len(s) - k)
PySliceFromNeg(s, k) == IF k = 0 THEN s ELSE SubSeq(s, Len(s) - k + 1, Len(s))

(***************************************************************************)
(* External collaborators of the compactor, as outcomes.                   *)
(*   native : model.get_num_tokens_from_messages -- raises, or a count     *)
(*   summ   : model.invoke in _generate_summary  -- raises, or a text      *)
(***************************************************************************)
NativeOutcomes ==
    { [ok |-> FALSE, n |-> 0] } \cup { [ok |-> TRUE, n |-> k] : k \in 0..MaxNative }

SummaryOutcomes ==
    { [ok |-> FALSE, text |-> ""], [ok |-> TRUE, text |-> "S1"], [ok |-> TRUE, text |-> "S2"] }

(***************************************************************************)
(* AutoCompactor.invoke, piece by piece.                                   *)
(***************************************************************************)
\* compactor.py:42   sum(len(m.content) for m in messages) // 4
FallbackTokens(messages) == SumLen(messages) \div 4

\* compactor.py:38-42
CurrentTokens(messages, native) ==
    IF native.ok THEN native.n ELSE FallbackTokens(messages)

UnderBudgetOffByOne(current_tokens, maxTok) == current_tokens < maxTok - 1
\* compactor.py:44   if current_tokens < self.max_tokens: return messages
UnderBudget(current_tokens, maxTok) == current_tokens < maxTok

IsSystem(m) == m.type = "system"
NotSystem(m) == m.type # "system"

\* compactor.py:71
SystemMsgs(messages) == SelectSeq(messages, IsSystem)
\* compactor.py:72
NonSystem(messages) == SelectSeq(messages, NotSystem)

\* compactor.py:78   non_system[:-self.recent_buffer]
ToSummarize(non_system, rb) == PySliceUntilNeg(non_system, rb)

RecentOldest(non_system, rb) == SubSeq(non_system, 1, rb)
\* compactor.py:79   non_system[-self.recent_buffer:]
Recent(non_system, rb) == PySliceFromNeg(non_system, rb)

SummaryHeader ==
    " [PREVIOUS CONVERSATION SUMMARY]\nThe following is a condensed summary of the earlier conversation. Use this context to understand past decisions:\n\n"

\* compactor.py:86-88
SummaryMessage(summary_text) == Msg("system", SummaryHeader \o summary_text)

NewHistoryWithoutRecent(system_msgs, summary_message, recent) ==
    system_msgs \o <<summary_message>>
\* compactor.py:90
NewHistory(system_msgs, summary_message, recent) ==
    system_msgs \o <<summary_message>> \o recent

OnFailureTruncate(messages, rb) ==
    [out |-> SystemMsgs(messages) \o Recent(NonSystem(messages), rb), raised |-> FALSE]
\* compactor.py:101-104   except Exception: ... return messages
OnFailure(messages, rb) == [out |-> messages, raised |-> FALSE]

\* compactor.py:32-104.  The result records the returned list and what the
\* call did: the estimate it compared, whether compaction triggered (line 47
\* reached), whether the summarization call was made and whether it raised.
Invoke(messages, maxTok, rb, native, summ) ==
    LET current_tokens == CurrentTokens(messages, native)
        system_msgs == SystemMsgs(messages)
        non_system == NonSystem(messages)
        base == [out |-> messages, tokens |-> current_tokens, fallback |-> ~native.ok,
                 triggered |-> FALSE, summarized |-> FALSE, summRaised |-> FALSE,
                 raised |-> FALSE]
    IN  IF UnderBudget(current_tokens, maxTok) THEN base
        ELSE IF Len(non_system) <= rb THEN [base EXCEPT !.triggered = TRUE]
        ELSE IF ~summ.ok
             THEN [base EXCEPT !.triggered = TRUE, !.summRaised = TRUE,
                               !.out = OnFailure(messages, rb).out,
                               !.raised = OnFailure(messages, rb).raised]
        ELSE [base EXCEPT !.triggered = TRUE, !.summarized = TRUE,
                          !.out = NewHistory(system_msgs, SummaryMessage(summ.text),
                                             Recent(non_system, rb))]

NoCall ==
    [out |-> <<>>, tokens |-> 0, fallback |-> FALSE, triggered |-> FALSE,
     summarized |-> FALSE, summRaised |-> FALSE, raised |-> FALSE, text |-> ""]

(***************************************************************************)
(* CustomSqliteSaver.  Revision ids (thread_ts, checkpoint["id"]) are      *)
(* fixed-width strings compared as TEXT; they are modelled by 1..MaxRev    *)
(* with the same order, and 0 stands for None or "" (both falsy).          *)
(***************************************************************************)
Threads == {"A", "B"}
Revs == 1..MaxRev
Writers == {"w1", "w2"}
Readers == {"r1"}
ReadThreads == {"A"}      \* the thread the reader asks for; writers write "A" and "B"

Checkpoint(id, has, msgs) == [id |-> id, has_messages |-> has, messages |-> msgs]

\* what a caller saves: the message list of checkpoint["channel_values"] (or a
\* checkpoint without one) together with its metadata
Payloads ==
    { [has_messages |-> TRUE, metadata |-> "m1",
       messages |-> << Msg("system", "sys"), Msg("human", "hello"), Msg("ai", "answer!") >>],
      [has_messages |-> FALSE, metadata |-> "m2", messages |-> <<>>] }

\* pickle.dumps / pickle.loads
Pickle(v) == [pickled |-> v]
Unpickle(b) == b.pickled

Row(t, ts, parent, ckpt, meta) ==
    [thread_id |-> t, thread_ts |-> ts, parent_ts |-> parent,
     checkpoint |-> ckpt, metadata |-> meta]

NoArg == [thread_id |-> "A", checkpoint |-> [id |-> 0]]

NoTuple == [found |-> FALSE, thread_id |-> "A", thread_ts |-> 0,
            checkpoint |-> Checkpoint(0, FALSE, <<>>), metadata |-> "m1", parent |-> 0,
            hook |-> "skipped"]

NoPut == [done |-> FALSE, checkpoint |-> Checkpoint(0, FALSE, <<>>), metadata |-> "m1",
          parent |-> 0]

RowsOf(tbl, t) == { r \in tbl : r.thread_id = t }

\* a torn write: the row of the key keeps its old metadata and parent
InsertOrReplaceTorn(tbl, row) ==
    { r \in tbl : ~(r.thread_id = row.thread_id /\ r.thread_ts = row.thread_ts) }
    \cup { [row EXCEPT !.metadata = r.metadata, !.parent_ts = r.parent_ts] :
             r \in { q \in tbl : q.thread_id = row.thread_id /\ q.thread_ts = row.thread_ts } }
    \cup (IF \E q \in tbl : q.thread_id = row.thread_id /\ q.thread_ts = row.thread_ts
          THEN {} ELSE {row})
InsertOnly(tbl, row) == tbl \cup {row}
\* checkpointer.py:150-159 with the PRIMARY KEY of checkpointer.py:38
\* INSERT OR REPLACE INTO checkpoints (...) VALUES (...)
InsertOrReplace(tbl, row) ==
    { r \in tbl : ~(r.thread_id = row.thread_id /\ r.thread_ts = row.thread_ts) } \cup {row}

\* checkpointer.py:93-96   ... WHERE thread_id = ? AND thread_ts = ?
SelectExact(tbl, t, ts) == { r \in tbl : r.thread_id = t /\ r.thread_ts = ts }

SelectOldest(tbl, t) ==
    { r \in RowsOf(tbl, t) : \A q \in RowsOf(tbl, t) : r.thread_ts <= q.thread_ts }
\* checkpointer.py:98-101   ... WHERE thread_id = ? ORDER BY thread_ts DESC LIMIT 1
SelectLatest(tbl, t) ==
    { r \in RowsOf(tbl, t) : \A q \in RowsOf(tbl, t) : q.thread_ts <= r.thread_ts }

QueryIgnoringThread(tbl, t, ts) ==
    IF ts # 0 THEN { r \in tbl : r.thread_ts = ts }
    ELSE { r \in tbl : \A q \in tbl : q.thread_ts <= r.thread_ts }
\* checkpointer.py:92-101   if thread_ts: ... else: ...
Query(tbl, t, ts) == IF ts # 0 THEN SelectExact(tbl, t, ts) ELSE SelectLatest(tbl, t)

\* checkpointer.py:160-165   the config put returns
PutResult(arg) == [thread_id |-> arg.thread_id, thread_ts |-> arg.checkpoint.id]

\* A LangChain trimmer as context manager (checkpointer.py:22, 112): its
\* invoke raises, or returns the last `keep` messages.
TrimOutcomes == { [ok |-> FALSE, keep |-> 0], [ok |-> TRUE, keep |-> 1] }

\* checkpointer.py:113   self.context_manager.invoke(original_msgs)
ContextInvoke(cm, messages, maxTok, rb, native, summ, trim) ==
    IF cm = "compactor"
    THEN LET r == Invoke(messages, maxTok, rb, native, summ)
         IN [out |-> r.out, raised |-> r.raised]
    ELSE IF trim.ok
    THEN [out |-> PySliceFromNeg(messages, trim.keep), raised |-> FALSE]
    ELSE [out |-> <<>>, raised |-> TRUE]

HookDropsOnFailure(checkpoint, r) ==
    [checkpoint EXCEPT !.messages = r.out]
\* checkpointer.py:110-117   the try around the hook: the messages are
\* replaced only when invoke returned
HookResult(checkpoint, r) ==
    IF r.raised THEN checkpoint ELSE [checkpoint EXCEPT !.messages = r.out]

\* checkpointer.py:109
HookRuns(cm, checkpoint) == cm # "none" /\ checkpoint.has_messages

\* checkpointer.py:104-124   the CheckpointTuple built from a fetched row; the
\* field hook records what the load-time hook did
TupleOf(row, cm, maxTok, rb, native, summ, trim) ==
    LET checkpoint == Unpickle(row.checkpoint)
        metadata == Unpickle(row.metadata)
        r == ContextInvoke(cm, checkpoint.messages, maxTok, rb, native, summ, trim)
        loaded == IF HookRuns(cm, checkpoint) THEN HookResult(checkpoint, r)
                  ELSE checkpoint
    IN [found |-> TRUE, thread_id |-> row.thread_id, thread_ts |-> row.thread_ts,
        checkpoint |-> loaded, metadata |-> metadata, parent |-> row.parent_ts,
        hook |-> IF ~HookRuns(cm, checkpoint) THEN "skipped"
                 ELSE IF r.raised THEN "raised" ELSE "ok"]

\* what the tokenizer, the summarization model and the trimmer may answer
\* during one get_tuple; they are only called when the hook runs
\* (checkpointer.py:109).  The tokenizer raises (the fallback estimate is
\* used) or reports 0 tokens.
HookOutcomes(row, cm) ==
    IF cm = "compactor" /\ Unpickle(row.checkpoint).has_messages
    THEN { n \in NativeOutcomes : n.n = 0 } \X SummaryOutcomes \X { [ok |-> FALSE, keep |-> 0] }
    ELSE IF cm = "trimmer" /\ Unpickle(row.checkpoint).has_messages
    THEN { [ok |-> FALSE, n |-> 0] } \X { [ok |-> FALSE, text |-> ""] } \X TrimOutcomes
    ELSE { << [ok |-> FALSE, n |-> 0], [ok |-> FALSE, text |-> ""], [ok |-> FALSE, keep |-> 0] >> }

\* checkpointer.py:87-125   every value get_tuple may return for
\* config["configurable"] = {thread_id: t, thread_ts: ts} on table tbl
GetTupleResults(tbl, t, ts, cm, maxTok, rb) ==
    LET rows == Query(tbl, t, ts)
    IN IF rows = {} THEN { NoTuple }
       ELSE UNION { { TupleOf(row, cm, maxTok, rb, env[1], env[2], env[3]) :
                        env \in HookOutcomes(row, cm) } : row \in rows }

\* the store right after CustomSqliteSaver.__init__ on an empty database
StoreAtRest ==
    /\ table = {}
    /\ wPc = [w \in Writers |-> "idle"]
    /\ wArg = [w \in Writers |-> NoArg]
    /\ rArg = [r \in Readers |-> [thread_id |-> "A", thread_ts |-> 0]]
    /\ rRet = [r \in Readers |-> NoTuple]
    /\ puts = 0
    /\ lastPut = [t \in Threads |-> [v \in Revs |-> NoPut]]
    /\ replaced = FALSE
    /\ lastDone = [t \in Threads |-> 0]

InitStore ==
    /\ context_manager \in {"none", "compactor"}
    /\ max_tokens = 1 /\ recent_buffer = 1
    /\ StoreAtRest

\* checkpointer.py:138-159   a caller enters put and the INSERT OR REPLACE of
\* `with self.conn:` commits.  The checkpoint id is any id (a later, an earlier
\* or a retried checkpoint); the config names no revision or the latest stored.
Put(w) ==
    /\ wPc[w] = "idle"
    /\ puts < MaxPuts
    /\ \E t \in Threads, id \in Revs, p \in Payloads :
       \E parent_ts \in {0} \cup { r.thread_ts : r \in SelectLatest(table, t) } :
         LET checkpoint == Checkpoint(id, p.has_messages, p.messages)
             thread_ts == checkpoint.id
             row == Row(t, thread_ts, parent_ts, Pickle(checkpoint), Pickle(p.metadata))
         IN /\ table' = InsertOrReplace(table, row)
            /\ wArg' = [wArg EXCEPT ![w] = [thread_id |-> t, checkpoint |-> [id |-> id]]]
            /\ lastPut' = [lastPut EXCEPT ![t][thread_ts] =
                             [done |-> TRUE, checkpoint |-> checkpoint,
                              metadata |-> p.metadata, parent |-> parent_ts]]
            /\ replaced' = (replaced \/ \E r \in SelectExact(table, t, thread_ts) : r # row)
    /\ wPc' = [wPc EXCEPT ![w] = "ret"]
    /\ puts' = puts + 1
    /\ UNCHANGED <<max_tokens, recent_buffer, context_manager, rArg, rRet, lastDone>>
    /\ UNCHANGED compOnly
    /\ UNCHANGED <<streamVars, dispVars, wfVars>>

\* checkpointer.py:160-165   put returns to its caller
PutReturn(w) ==
    /\ wPc[w] = "ret"
    /\ LET ret == PutResult(wArg[w])
       IN lastDone' = [lastDone EXCEPT ![ret.thread_id] = ret.thread_ts]
    /\ wPc' = [wPc EXCEPT ![w] = "idle"]
    /\ wArg' = [wArg EXCEPT ![w] = NoArg]
    /\ UNCHANGED <<max_tokens, recent_buffer, context_manager, table, rArg, rRet,
                   puts, lastPut, replaced>>
    /\ UNCHANGED compOnly
    /\ UNCHANGED <<streamVars, dispVars, wfVars>>

\* a get_tuple that stores what its hook made of the messages
GetTupleWritesBack(r) ==
    /\ \E t \in ReadThreads, ts \in {0} \cup Revs :
         /\ rArg' = [rArg EXCEPT ![r] = [thread_id |-> t, thread_ts |-> ts]]
         /\ \E tuple \in GetTupleResults(table, t, ts, context_manager,
                                          max_tokens, recent_buffer) :
              /\ rRet' = [rRet EXCEPT ![r] = tuple]
              /\ table' = IF tuple.found
                          THEN { IF row.thread_id = tuple.thread_id
                                    /\ row.thread_ts = tuple.thread_ts
                                 THEN [row EXCEPT !.checkpoint = Pickle(tuple.checkpoint)]
                                 ELSE row : row \in table }
                          ELSE table
    /\ UNCHANGED <<max_tokens, recent_buffer, context_manager, wPc, wArg,
                   puts, lastPut, replaced, lastDone>>
    /\ UNCHANGED compOnly
    /\ UNCHANGED <<streamVars, dispVars, wfVars>>

\* checkpointer.py:87-125   get_tuple: the SELECT, fetchone, the load-time hook
\* and the return
GetTuple(r) ==
    /\ \E t \in ReadThreads, ts \in {0} \cup Revs :
         /\ rArg' = [rArg EXCEPT ![r] = [thread_id |-> t, thread_ts |-> ts]]
         /\ \E tuple \in GetTupleResults(table, t, ts, context_manager,
                                          max_tokens, recent_buffer) :
              rRet' = [rRet EXCEPT ![r] = tuple]
    /\ UNCHANGED <<max_tokens, recent_buffer, context_manager, table, wPc, wArg,
                   puts, lastPut, replaced, lastDone>>
    /\ UNCHANGED compOnly
    /\ UNCHANGED <<streamVars, dispVars, wfVars>>

NextStore ==
    \/ \E w \in Writers : Put(w)
    \/ \E w \in Writers : PutReturn(w)
    \/ \E r \in Readers : GetTuple(r)

\* checkpointer.py:8-14, 48-56   aput evaluates asyncio.to_thread, but the module
\* imports bind no name asyncio (only aget_tuple and alist import it, locally):
\* the NameError is raised before put is called, so nothing is written
APutTable(tbl, row) == tbl

\* checkpointer.py:48-56   a caller awaits aput
APut(w) ==
    /\ wPc[w] = "idle"
    /\ puts < MaxPuts
    /\ \E t \in Threads, id \in Revs, p \in Payloads :
       \E parent_ts \in {0} \cup { r.thread_ts : r \in SelectLatest(table, t) } :
         LET checkpoint == Checkpoint(id, p.has_messages, p.messages)
             row == Row(t, checkpoint.id, parent_ts, Pickle(checkpoint), Pickle(p.metadata))
         IN /\ table' = APutTable(table, row)
            /\ wArg' = [wArg EXCEPT ![w] = [thread_id |-> t, checkpoint |-> [id |-> id]]]
    /\ wPc' = [wPc EXCEPT ![w] = "araised"]
    /\ puts' = puts + 1
    /\ UNCHANGED <<max_tokens, recent_buffer, context_manager, rArg, rRet, lastDone,
                   lastPut, replaced>>
    /\ UNCHANGED compOnly
    /\ UNCHANGED <<streamVars, dispVars, wfVars>>

\* checkpointer.py:56   the NameError of aput reaches the awaiting caller
APutRaised(w) ==
    /\ wPc[w] = "araised"
    /\ wPc' = [wPc EXCEPT ![w] = "idle"]
    /\ wArg' = [wArg EXCEPT ![w] = NoArg]
    /\ UNCHANGED <<max_tokens, recent_buffer, context_manager, table, rArg, rRet,
                   puts, lastPut, replaced, lastDone>>
    /\ UNCHANGED compOnly
    /\ UNCHANGED <<streamVars, dispVars, wfVars>>

\* checkpointer.py:43-46   aget_tuple: get_tuple itself, run by asyncio.to_thread
AGetTuple(r) == GetTuple(r)

NextStoreAsync ==
    \/ \E w \in Writers : Put(w)
    \/ \E w \in Writers : PutReturn(w)
    \/ \E w \in Writers : APut(w)
    \/ \E w \in Writers : APutRaised(w)
    \/ \E r \in Readers : AGetTuple(r)

(***************************************************************************)
(* SlackStreamer (slack_streamer.py).  A Python str is modelled as the     *)
(* sequence of its characters, each a one-character string, so that        *)
(* lower(), strip(), startswith(), endswith() and re.sub are computed.     *)
(* Times are in tenths of a second.                                        *)
(***************************************************************************)
MaxPushes == 3        \* tokens given to handle_token in one run
MaxStatus == 4        \* update_status calls in one run
MaxStops == 1         \* stop calls in one run
MaxTime == 11         \* the run lasts at most this long after construction

\* slack_streamer.py:19   throttle_interval: float = 1.0
THROTTLE_INTERVAL == 10
\* slack_streamer.py:54   current_time - self.last_status_update_time > 0.5
STATUS_INTERVAL == 5

\* time.time() when the streamer is constructed: seconds since 1970, so far
\* beyond both intervals measured from the initial timestamps 0.0
Epoch == 2 * THROTTLE_INTERVAL

\* between two calls the clock advances by exactly the interval that
\* throttles them, or by a little more
StatusTickSteps == { STATUS_INTERVAL, STATUS_INTERVAL + 1 }
TokenTickSteps == { THROTTLE_INTERVAL, THROTTLE_INTERVAL + 1 }

UpperCase ==
    <<"A", "B", "C", "D", "E", "F", "G", "H", "I", "J", "K", "L", "M",
      "N", "O", "P", "Q", "R", "S", "T", "U", "V", "W", "X", "Y", "Z">>
LowerCase ==
    <<"a", "b", "c", "d", "e", "f", "g", "h", "i", "j", "k", "l", "m",
      "n", "o", "p", "q", "r", "s", "t", "u", "v", "w", "x", "y", "z">>

LowerMap ==
    [c \in { UpperCase[i] : i \in 1..26 } |->
        LowerCase[CHOOSE i \in 1..26 : UpperCase[i] = c]]

LowerChar(c) == IF c \in DOMAIN LowerMap THEN LowerMap[c] ELSE c

\* str.lower()
Lower(s) == [i \in 1..Len(s) |-> LowerChar(s[i])]

\* the characters \s matches and strip() removes
IsSpace(c) == c \in {" ", "\n", "\t", "\r"}

RECURSIVE LStrip(_)
LStrip(s) == IF s # <<>> /\ IsSpace(Head(s)) THEN LStrip(Tail(s)) ELSE s
RECURSIVE RStrip(_)
RStrip(s) ==
    IF s # <<>> /\ IsSpace(s[Len(s)]) THEN RStrip(SubSeq(s, 1, Len(s) - 1)) ELSE s
\* str.strip()
Strip(s) == RStrip(LStrip(s))

\* str.startswith(p), str.endswith(p)
StartsWith(s, p) == Len(s) >= Len(p) /\ SubSeq(s, 1, Len(p)) = p
EndsWith(s, p) == Len(s) >= Len(p) /\ SubSeq(s, Len(s) - Len(p) + 1, Len(s)) = p

\* slack_streamer.py:86   target = "thought:"
target == <<"t", "h", "o", "u", "g", "h", "t", ":">>

EndsWithPartialCaseSensitive(buf) ==
    \E i \in 1..(Len(target) - 1) : EndsWith(buf, SubSeq(target, 1, i))
\* slack_streamer.py:87-98   the buffer, lower-cased, ends with target[:i]
\* for some i in range(1, len(target))
EndsWithPartial(buf) ==
    \E i \in 1..(Len(target) - 1) : EndsWith(Lower(buf), SubSeq(target, 1, i))

\* The substitution of lines 102 and 116 (flags i and m; pattern: line start,
\* then one or more groups of white space, "thought:", white space) with the
\* empty string: at every line start (the start of s or just after a newline)
\* from which white space and then the marker follow, the longest run of
\* such groups is removed; everything else is kept.
AtLineStart(s, p) == p = 1 \/ s[p - 1] = "\n"

RECURSIVE SkipSpace(_, _)
SkipSpace(s, p) == IF p <= Len(s) /\ IsSpace(s[p]) THEN SkipSpace(s, p + 1) ELSE p

MarkerAt(s, p) ==
    /\ p + Len(target) - 1 <= Len(s)
    /\ Lower(SubSeq(s, p, p + Len(target) - 1)) = target

\* one repetition of the group from p: the position after it, 0 if none
RepEnd(s, p) ==
    LET q == SkipSpace(s, p)
    IN IF MarkerAt(s, q) THEN SkipSpace(s, q + Len(target)) ELSE 0

RECURSIVE RepsEnd(_, _)
RepsEnd(s, p) == LET e == RepEnd(s, p) IN IF e = 0 THEN p ELSE RepsEnd(s, e)

MatchEnd(s, p) == IF AtLineStart(s, p) /\ RepEnd(s, p) # 0 THEN RepsEnd(s, p) ELSE 0

RECURSIVE CleanFrom(_, _)
CleanFrom(s, p) ==
    IF p > Len(s) THEN <<>>
    ELSE LET e == MatchEnd(s, p)
         IN IF e # 0 THEN CleanFrom(s, e) ELSE <<s[p]>> \o CleanFrom(s, p + 1)

\* slack_streamer.py:102, 116
CleanThought(s) == CleanFrom(s, 1)

(***************************************************************************)
(* What the model streams.  A response is given as its pieces: a token is  *)
(* any number of consecutive pieces, so a token may end inside the marker, *)
(* right after it, inside the reasoning line or after it.                  *)
(***************************************************************************)
RECURSIVE Concat(_)
Concat(ps) == IF ps = <<>> THEN <<>> ELSE Head(ps) \o Concat(Tail(ps))

ReasonedResponse ==      \* "thought: internal\nReal answer."
    << <<"t", "h", "o", "u">>, <<"g", "h", "t", ":">>,
       <<" ", "i", "n", "t", "e", "r", "n", "a", "l", "\n">>,
       <<"R", "e", "a", "l", " ", "a", "n", "s", "w", "e", "r", ".">> >>

PlainResponse ==         \* "Answer is thorough."
    << <<"A", "n", "s", "w", "e", "r", " ", "i", "s", " ">>, <<"t", "h", "o">>,
       <<"r", "o", "u", "g", "h", ".">> >>

ShoutedResponse ==       \* "No THOU art."
    << <<"N", "o", " ">>, <<"T", "H", "O", "U">>, <<" ", "a", "r", "t", ".">> >>

Responses == { ReasonedResponse, PlainResponse, ShoutedResponse }

(***************************************************************************)
(* The transport (ctx.slack and the handle of get_streamer), as outcomes:  *)
(* a call returns or raises.                                               *)
(***************************************************************************)
AppendOutcomes == { "ok", "raise" }
StatusOutcomes == { "ok", "raise" }

StatusCall(kind, out) == [kind |-> kind, ok |-> (out = "ok")]
AppendCall(text, out) == [text |-> text, ok |-> (out = "ok")]

NoOp ==
    [op |-> "none", raised |-> FALSE, flushed |-> FALSE, buf0 |-> <<>>,
     sent |-> <<>>, heldBefore |-> FALSE, bound |-> FALSE,
     cleared |-> FALSE, released |-> FALSE]

FlushDueAtInterval(t, last, interval) == t - last >= interval
\* slack_streamer.py:76   current_time - self.last_update_time > self.throttle_interval
FlushDue(t, last, interval) == t - last > interval

StatusDueAlways(t, last) == TRUE
\* slack_streamer.py:54   current_time - self.last_status_update_time > 0.5
StatusDue(t, last) == t - last > STATUS_INTERVAL

FlushBufferClearsOnFailure(buf, strm, last, t, out) ==
    IF buf = <<>> \/ EndsWithPartial(buf) \/ CleanThought(buf) = <<>>
    THEN [buffer |-> buf, last_update_time |-> last, calls |-> <<>>,
          held |-> (buf # <<>> /\ EndsWithPartial(buf))]
    ELSE [buffer |-> <<>>, last_update_time |-> t,
          calls |-> IF strm # 0 THEN << AppendCall(CleanThought(buf), out) >> ELSE <<>>,
          held |-> FALSE]
\* slack_streamer.py:79-110   _flush_buffer: the buffer and timestamp it
\* leaves, the append calls it makes and whether the guard held it back
FlushBuffer(buf, strm, last, t, out) ==
    IF buf = <<>>
    THEN [buffer |-> buf, last_update_time |-> last, calls |-> <<>>, held |-> FALSE]
    ELSE IF EndsWithPartial(buf)
    THEN [buffer |-> buf, last_update_time |-> last, calls |-> <<>>, held |-> TRUE]
    ELSE LET clean_text == CleanThought(buf)
         IN IF clean_text = <<>>
            THEN [buffer |-> buf, last_update_time |-> last, calls |-> <<>>,
                  held |-> FALSE]
            ELSE IF strm # 0 /\ out = "raise"
            THEN [buffer |-> buf, last_update_time |-> last,
                  calls |-> << AppendCall(clean_text, out) >>, held |-> FALSE]
            ELSE [buffer |-> <<>>, last_update_time |-> t,
                  calls |-> IF strm # 0 THEN << AppendCall(clean_text, out) >> ELSE <<>>,
                  held |-> FALSE]

\* slack_streamer.py:66-68   the token is the first of the actual response
FirstToken(started, buf, content) ==
    /\ ~started
    /\ Strip(content) # <<>>
    /\ ~StartsWith(Strip(Lower(buf \o content)), target)

StreamerAtRest ==
    /\ streamer = 0
    /\ buffer = <<>>
    /\ last_update_time = 0
    /\ response_started = FALSE
    /\ last_status_update_time = 0
    /\ now = Epoch
    /\ rest = <<>>
    /\ appends = <<>>
    /\ statusCalls = <<>>
    /\ tokens = <<>>
    /\ minorCalls = <<>>
    /\ majorCalls = 0
    /\ withheld = FALSE
    /\ stopCalls = 0
    /\ closed = {}
    /\ lastOp = NoOp

\* slack_streamer.py:19-31   __init__, and the response the model is about to stream
InitStreamer ==
    /\ streamer = 0
    /\ buffer = <<>>
    /\ last_update_time = 0
    /\ response_started = FALSE
    /\ last_status_update_time = 0
    /\ now = Epoch
    /\ rest \in Responses
    /\ appends = <<>>
    /\ statusCalls = <<>>
    /\ tokens = <<>>
    /\ minorCalls = <<>>
    /\ majorCalls = 0
    /\ withheld = FALSE
    /\ stopCalls = 0
    /\ closed = {}
    /\ lastOp = NoOp

\* slack_streamer.py:33-40   start
Start ==
    /\ streamer' = 1
    /\ UNCHANGED <<buffer, last_update_time, response_started, last_status_update_time,
                   now, rest, appends, statusCalls, tokens, minorCalls, majorCalls,
                   withheld, stopCalls, closed, lastOp>>
    /\ UNCHANGED <<compVars, storeVars, dispVars, wfVars>>

\* the calls of start that one streamer is given
MaxStarts == 2

\* slack_streamer.py:33-40   start, the handles told apart: get_streamer builds
\* a new SlackStreamer wrapper at every call (slack_client.py:286), numbered
\* here in the order of the calls, and start assigns it whatever was bound
StartNew ==
    /\ streamer < MaxStarts
    /\ streamer' = streamer + 1
    /\ UNCHANGED <<buffer, last_update_time, response_started, last_status_update_time,
                   now, rest, appends, statusCalls, tokens, minorCalls, majorCalls,
                   withheld, stopCalls, closed, lastOp>>
    /\ UNCHANGED <<compVars, storeVars, dispVars, wfVars>>

\* slack_streamer.py:60-77   handle_token with the next token of the response,
\* _flush_buffer included when the throttle lets it run
HandleToken ==
    /\ Len(tokens) < MaxPushes
    /\ \E k \in 0..Len(rest) :
       LET content == Concat(SubSeq(rest, 1, k))
           first == FirstToken(response_started, buffer, content)
           grown == buffer \o content
           due == FlushDue(now, last_update_time, THROTTLE_INTERVAL)
       IN \E so \in (IF first THEN StatusOutcomes ELSE {"ok"}),
             ao \in (IF due /\ streamer # 0 THEN AppendOutcomes ELSE {"ok"}) :
         LET f == FlushBuffer(grown, streamer, last_update_time, now, ao)
             op == [NoOp EXCEPT !.op = "token", !.heldBefore = withheld,
                                !.bound = (streamer # 0)]
         IN /\ rest' = SubSeq(rest, k + 1, Len(rest))
            /\ tokens' = IF content = <<>> THEN tokens
                          ELSE Append(tokens,
                                      [content |-> content,
                                       flushed |-> due /\ ~(first /\ so = "raise"),
                                       bound |-> streamer # 0])
            /\ IF content = <<>>
               THEN \* line 62: if not content: return
                    /\ lastOp' = op
                    /\ UNCHANGED <<buffer, last_update_time, response_started,
                                   appends, statusCalls, withheld>>
               ELSE /\ statusCalls' = IF first
                                      THEN Append(statusCalls, StatusCall("clear", so))
                                      ELSE statusCalls
                    /\ IF first /\ so = "raise"
                       THEN \* line 69 raises: the token is not buffered
                            /\ lastOp' = [op EXCEPT !.raised = TRUE]
                            /\ UNCHANGED <<buffer, last_update_time, response_started,
                                           appends, withheld>>
                       ELSE /\ response_started' = (response_started \/ first)
                            /\ IF due
                               THEN /\ buffer' = f.buffer
                                    /\ last_update_time' = f.last_update_time
                                    /\ appends' = appends \o f.calls
                                    /\ withheld' = f.held
                                    /\ lastOp' = [op EXCEPT !.flushed = TRUE,
                                                            !.buf0 = grown,
                                                            !.sent = f.calls]
                               ELSE /\ buffer' = grown
                                    /\ lastOp' = op
                                    /\ UNCHANGED <<last_update_time, appends, withheld>>
    /\ UNCHANGED <<streamer, last_status_update_time, now, minorCalls, majorCalls,
                   stopCalls, closed>>
    /\ UNCHANGED <<compVars, storeVars, dispVars, wfVars>>

\* slack_streamer.py:42-58   update_status(messages, status_text)
UpdateStatus ==
    /\ majorCalls + Len(minorCalls) < MaxStatus
    /\ \E messages \in { <<>>, <<"m">> }, status_text \in { "", "Thinking" },
          so \in StatusOutcomes :
         LET op == [NoOp EXCEPT !.op = "status", !.heldBefore = withheld,
                                !.bound = (streamer # 0)]
             due == StatusDue(now, last_status_update_time)
         IN IF messages # <<>>
            THEN \* lines 47-51
                 /\ statusCalls' = Append(statusCalls, StatusCall("loading", so))
                 /\ majorCalls' = majorCalls + 1
                 /\ lastOp' = [op EXCEPT !.raised = (so = "raise")]
                 /\ UNCHANGED <<last_status_update_time, minorCalls>>
            ELSE IF status_text # ""
            THEN \* lines 54-58
                 /\ statusCalls' = IF due THEN Append(statusCalls, StatusCall("status", so))
                                   ELSE statusCalls
                 /\ last_status_update_time' =
                        IF due /\ so = "ok" THEN now ELSE last_status_update_time
                 /\ minorCalls' = Append(minorCalls,
                                         [at |-> now, sent |-> due, ok |-> due /\ so = "ok"])
                 /\ lastOp' = [op EXCEPT !.raised = (due /\ so = "raise")]
                 /\ UNCHANGED majorCalls
            ELSE /\ lastOp' = op
                 /\ UNCHANGED <<statusCalls, last_status_update_time, minorCalls,
                                majorCalls>>
    /\ UNCHANGED <<streamer, buffer, last_update_time, response_started, now, rest,
                   appends, tokens, withheld, stopCalls, closed>>
    /\ UNCHANGED <<compVars, storeVars, dispVars, wfVars>>

\* slack_streamer.py:112-124   stop
Stop ==
    /\ stopCalls < MaxStops
    /\ \E ao \in AppendOutcomes, so \in StatusOutcomes, co \in { "ok", "raise" } :
         LET clean_text == Strip(CleanThought(buffer))
             doAppend == buffer # <<>> /\ clean_text # <<>> /\ streamer # 0
             appendRaised == doAppend /\ ao = "raise"
             statusRaised == ~appendRaised /\ so = "raise"
             doClose == ~appendRaised /\ ~statusRaised /\ streamer # 0
             calls == IF doAppend THEN << AppendCall(clean_text, ao) >> ELSE <<>>
         IN /\ appends' = appends \o calls
            /\ statusCalls' = IF appendRaised THEN statusCalls
                              ELSE Append(statusCalls, StatusCall("clear", so))
            /\ closed' = IF doClose THEN closed \cup {streamer} ELSE closed
            /\ lastOp' = [NoOp EXCEPT !.op = "stop",
                                      !.raised = (appendRaised \/ statusRaised
                                                  \/ (doClose /\ co = "raise")),
                                      !.buf0 = buffer,
                                      !.sent = calls,
                                      !.heldBefore = withheld,
                                      !.bound = (streamer # 0),
                                      !.cleared = ~appendRaised,
                                      !.released = doClose]
    /\ stopCalls' = stopCalls + 1
    /\ UNCHANGED <<streamer, buffer, last_update_time, response_started,
                   last_status_update_time, now, rest, tokens, minorCalls, majorCalls,
                   withheld>>
    /\ UNCHANGED <<compVars, storeVars, dispVars, wfVars>>

\* time passes between two calls of the token path
TokenTick ==
    /\ \E d \in TokenTickSteps :
         /\ now + d <= Epoch + MaxTime
         /\ now' = now + d
    /\ UNCHANGED <<streamer, buffer, last_update_time, response_started,
                   last_status_update_time, rest, appends, statusCalls, tokens,
                   minorCalls, majorCalls, withheld, stopCalls, closed, lastOp>>
    /\ UNCHANGED <<compVars, storeVars, dispVars, wfVars>>

\* time passes between two calls of update_status
StatusTick ==
    /\ \E d \in StatusTickSteps :
         /\ now + d <= Epoch + MaxTime
         /\ now' = now + d
    /\ UNCHANGED <<streamer, buffer, last_update_time, response_started,
                   last_status_update_time, rest, appends, statusCalls, tokens,
                   minorCalls, majorCalls, withheld, stopCalls, closed, lastOp>>
    /\ UNCHANGED <<compVars, storeVars, dispVars, wfVars>>

\* The token path: start, handle_token and stop.
NextStreamer == Start \/ HandleToken \/ Stop \/ TokenTick

\* The status path.  update_status reads and writes last_status_update_time
\* only, which no other method touches.
NextStatus == UpdateStatus \/ StatusTick

\* the streamer with start called more than once
NextRestart == StartNew \/ HandleToken \/ Stop \/ TokenTick

(***************************************************************************)
(* handle_event_trigger of dispatcher.py, over the SlackStreamer wrapper   *)
(* of slack_client.py                                                      *)
(***************************************************************************)

\* config.py:42   streaming_throttle_interval = 0.8, in tenths of a second
STREAMING_THROTTLE_INTERVAL == 8

\* dispatcher.py:106   the 0.5 of should_update_status, in tenths of a second
SHOULD_UPDATE_STATUS_INTERVAL == 5

\* the clock moves between two events of the agent
DispatchTickSteps == {3, 6}

\* `p in s` of two Python strings
Contains(s, p) ==
    \E i \in 1..(Len(s) - Len(p) + 1) : SubSeq(s, i, i + Len(p) - 1) = p

\* slack_client.py:325-338   append: _init_streamer may raise before the SDK
\* stream exists, the SDK append may raise once it does
SdkAppendOutcomes == {"ok", "init_raises", "append_raises"}
SdkStopOutcomes == {"ok", "raise"}
NoticeOutcomes == {"ok", "raise"}

\* slack_client.py:335-338   SlackStreamer.append
SdkAppend(sdk, text, out) ==
    LET o == IF sdk = 1 /\ out = "init_raises" THEN "append_raises" ELSE out
    IN  [ sdk  |-> IF o = "init_raises" THEN sdk ELSE 1,
          call |-> [text |-> text, ok |-> o = "ok"],
          ok   |-> o = "ok" ]

\* slack_client.py:340-343   SlackStreamer.stop
SdkStop(sdk, out) ==
    [ called |-> sdk = 1, ok |-> sdk = 0 \/ out = "ok" ]

NoExit ==
    [ how |-> "none", entered |-> FALSE, buf |-> <<>>, failed |-> FALSE,
      finalFlush |-> FALSE, open |-> FALSE, stopCalled |-> FALSE,
      released |-> FALSE, statusCleared |-> FALSE,
      notice |-> "none", noticeOk |-> FALSE, raised |-> FALSE ]

\* dispatcher.py:171-178   the except clause of the outer try
ErrorNotice(hasTs, out) ==
    [ notice |-> IF hasTs THEN "update_message" ELSE "send_message",
      noticeOk |-> out = "ok",
      raised |-> out # "ok" ]

\* dispatcher.py:158-178   what follows the event loop: the final append and the
\* status clear when the loop ran out (how = "exhausted"), nothing of the two
\* when an exception left the loop, then the finally clause, then the except
\* clause if an exception is in flight
ExitPath(how, buf, sdk, hasTs, ao, c1, so, c2, no) ==
    LET clean   == Strip(CleanThought(buf))
        doFinal == how = "exhausted" /\ buf # <<>> /\ clean # <<>>
        fin     == SdkAppend(sdk, clean, ao)
        finalOk == ~doFinal \/ fin.ok
        sdk1    == IF doFinal THEN fin.sdk ELSE sdk
        clear1  == how = "exhausted" /\ finalOk
        exc1    == how = "exception" \/ ~finalOk \/ (clear1 /\ c1 # "ok")
        stop    == SdkStop(sdk1, so)
        clear2  == stop.ok
        exc2    == exc1 \/ ~stop.ok \/ (clear2 /\ c2 # "ok")
        failed  == \/ doFinal /\ ~fin.ok
                   \/ clear1 /\ c1 # "ok"
                   \/ ~stop.ok
                   \/ clear2 /\ c2 # "ok"
        note    == IF exc2 THEN ErrorNotice(hasTs, no)
                   ELSE [notice |-> "none", noticeOk |-> FALSE, raised |-> FALSE]
    IN  [ appended |-> IF doFinal THEN <<fin.call>> ELSE <<>>,
          sdk |-> sdk1,
          exit |-> [ how |-> how, entered |-> TRUE, buf |-> buf,
                     failed |-> failed,
                     finalFlush |-> doFinal /\ fin.ok,
                     open |-> sdk1 = 1,
                     stopCalled |-> stop.called,
                     released |-> stop.called /\ stop.ok,
                     statusCleared |-> \/ clear1 /\ c1 = "ok"
                                       \/ clear2 /\ c2 = "ok",
                     notice |-> note.notice, noticeOk |-> note.noticeOk,
                     raised |-> note.raised ] ]

DispatcherAtRest ==
    /\ dPc = "idle" /\ dMsgTs = FALSE /\ dBuffer = <<>>
    /\ dLastUpdate = 0 /\ dLastStatus = 0 /\ dStarted = FALSE
    /\ dNow = Epoch /\ dRest = <<>> /\ dSdk = 0 /\ dAppends = <<>>
    /\ dExit = NoExit

\* an event has arrived and the agent is about to stream one of the responses
InitDispatcher ==
    /\ dPc = "idle" /\ dMsgTs \in BOOLEAN /\ dBuffer = <<>>
    /\ dLastUpdate = 0 /\ dLastStatus = 0 /\ dStarted = FALSE
    /\ dNow = Epoch /\ dRest \in Responses /\ dSdk = 0 /\ dAppends = <<>>
    /\ dExit = NoExit

\* the turn ends: the exit path has run
Leave(x) ==
    /\ dPc' = IF x.exit.raised THEN "raised" ELSE "returned"
    /\ dSdk' = x.sdk
    /\ dAppends' = dAppends \o x.appended
    /\ dExit' = x.exit

\* all the ways the exit path can go after an exception left the loop
RaiseOutOfLoop(buf) ==
    \E so \in SdkStopOutcomes, c2 \in StatusOutcomes, no \in NoticeOutcomes :
        /\ (dSdk = 0 => so = "ok")
        /\ Leave(ExitPath("exception", buf, dSdk, dMsgTs, "ok", "ok", so, c2, no))

\* dispatcher.py:16-68   the first status, the agent, the stream wrapper
DBegin ==
    /\ dPc = "idle"
    /\ \E st \in StatusOutcomes, made \in BOOLEAN, no \in NoticeOutcomes :
       /\ (st # "ok" => made /\ no = "ok")
       /\ (made => no = "ok")
       /\ IF st # "ok"
          THEN \* line 40 is outside every try
               /\ dPc' = "raised"
               /\ dExit' = [NoExit EXCEPT !.how = "first_status", !.failed = TRUE,
                                          !.raised = TRUE]
          ELSE IF ~made
          THEN \* detect_persona or create_agent raised: lines 171-178
               LET n == ErrorNotice(dMsgTs, no)
               IN  /\ dPc' = IF n.raised THEN "raised" ELSE "returned"
                   /\ dExit' = [NoExit EXCEPT !.how = "no_agent", !.failed = TRUE,
                                              !.notice = n.notice,
                                              !.noticeOk = n.noticeOk,
                                              !.raised = n.raised]
          ELSE /\ dPc' = "loop"
               /\ dExit' = dExit
    /\ UNCHANGED <<dMsgTs, dBuffer, dLastUpdate, dLastStatus, dStarted, dNow,
                   dRest, dSdk, dAppends>>
    /\ UNCHANGED <<compVars, storeVars, streamVars, wfVars>>

\* dispatcher.py:84-97   an on_tool_start event, or an on_chain_start event of
\* an agent whose name has "-expert" in it
DStatusEvent ==
    /\ dPc = "loop"
    /\ ~dStarted
    /\ \E st \in StatusOutcomes :
       IF st = "ok"
       THEN UNCHANGED <<dPc, dSdk, dAppends, dExit>>
       ELSE RaiseOutOfLoop(dBuffer)
    /\ UNCHANGED <<dMsgTs, dBuffer, dLastUpdate, dLastStatus, dStarted, dNow, dRest>>
    /\ UNCHANGED <<compVars, storeVars, streamVars, wfVars>>

\* dispatcher.py:100-156   an on_chat_model_stream event
DToken ==
    /\ dPc = "loop"
    /\ \E k \in 0..Len(dRest), kw \in BOOLEAN :
       LET content  == Concat(SubSeq(dRest, 1, k))
           should   == dNow - dLastStatus > SHOULD_UPDATE_STATUS_INTERVAL
           skipped  == kw \/ (content # <<>> /\ Contains(Lower(content), target))
           grown    == dBuffer \o content
           first    == /\ ~dStarted
                       /\ Strip(content) # <<>>
                       /\ ~StartsWith(Strip(Lower(grown)), target)
           due      == dNow - dLastUpdate > STREAMING_THROTTLE_INTERVAL
           clean    == CleanThought(grown)
       IN
       /\ dRest' = SubSeq(dRest, k + 1, Len(dRest))
       /\ IF skipped
          THEN \* lines 108-119: the chunk is dropped, the status maybe updated
               \E st \in StatusOutcomes :
                  /\ (~should => st = "ok")
                  /\ IF should /\ st # "ok"
                     THEN /\ RaiseOutOfLoop(dBuffer)
                          /\ UNCHANGED <<dBuffer, dLastUpdate, dLastStatus, dStarted>>
                     ELSE /\ dLastStatus' = IF should THEN dNow ELSE dLastStatus
                          /\ UNCHANGED <<dPc, dSdk, dAppends, dExit, dBuffer,
                                         dLastUpdate, dStarted>>
          ELSE IF content = <<>>
          THEN UNCHANGED <<dPc, dSdk, dAppends, dExit, dBuffer, dLastUpdate,
                           dLastStatus, dStarted>>
          ELSE \* lines 123-156
               \E st \in StatusOutcomes, ao \in SdkAppendOutcomes :
                  /\ (~first => st = "ok")
                  /\ ((first /\ st # "ok") \/ ~due \/ clean = <<>> => ao = "ok")
                  /\ IF first /\ st # "ok"
                     THEN /\ dBuffer' = grown
                          /\ RaiseOutOfLoop(grown)
                          /\ UNCHANGED <<dLastUpdate, dLastStatus, dStarted>>
                     ELSE LET a == SdkAppend(dSdk, clean, ao)
                              sent == due /\ clean # <<>>
                          IN  /\ dStarted' = (dStarted \/ first)
                              /\ dAppends' = IF sent THEN Append(dAppends, a.call)
                                             ELSE dAppends
                              /\ dSdk' = IF sent THEN a.sdk ELSE dSdk
                              /\ dBuffer' = IF sent /\ a.ok THEN <<>> ELSE grown
                              /\ dLastUpdate' = IF sent /\ a.ok THEN dNow
                                                ELSE dLastUpdate
                              /\ UNCHANGED <<dPc, dExit, dLastStatus>>
    /\ UNCHANGED <<dMsgTs, dNow>>
    /\ UNCHANGED <<compVars, storeVars, streamVars, wfVars>>

\* dispatcher.py:71, 158-178   agent.astream_events runs out: the final append,
\* the status clear, the finally clause and, after a failure, the except clause
DExhausted ==
    /\ dPc = "loop"
    /\ dRest = <<>>
    /\ \E ao \in SdkAppendOutcomes, c1 \in StatusOutcomes, so \in SdkStopOutcomes,
          c2 \in StatusOutcomes, no \in NoticeOutcomes :
          Leave(ExitPath("exhausted", dBuffer, dSdk, dMsgTs, ao, c1, so, c2, no))
    /\ UNCHANGED <<dMsgTs, dBuffer, dLastUpdate, dLastStatus, dStarted, dNow, dRest>>
    /\ UNCHANGED <<compVars, storeVars, streamVars, wfVars>>

\* dispatcher.py:71, 167-178   agent.astream_events raises: the finally clause,
\* then the except clause
DAgentRaises ==
    /\ dPc = "loop"
    /\ RaiseOutOfLoop(dBuffer)
    /\ UNCHANGED <<dMsgTs, dBuffer, dLastUpdate, dLastStatus, dStarted, dNow, dRest>>
    /\ UNCHANGED <<compVars, storeVars, streamVars, wfVars>>

\* time passes between two events
DTick ==
    /\ dPc = "loop"
    /\ \E d \in DispatchTickSteps :
       /\ dNow + d <= Epoch + MaxTime
       /\ dNow' = dNow + d
    /\ UNCHANGED <<dPc, dMsgTs, dBuffer, dLastUpdate, dLastStatus, dStarted,
                   dRest, dSdk, dAppends, dExit>>
    /\ UNCHANGED <<compVars, storeVars, streamVars, wfVars>>

NextDispatcher ==
    DBegin \/ DStatusEvent \/ DToken \/ DExhausted \/ DAgentRaises \/ DTick

(***************************************************************************)
(* WorkflowEngine of workflow_engine.py, over a chain of nodes             *)
(***************************************************************************)

MaxNodes == 2

UpperMap ==
    [c \in { LowerCase[i] : i \in 1..26 } |->
        UpperCase[CHOOSE i \in 1..26 : LowerCase[i] = c]]

UpperChar(c) == IF c \in DOMAIN UpperMap THEN UpperMap[c] ELSE c

\* str.upper()
Upper(s) == [i \in 1..Len(s) |-> UpperChar(s[i])]

\* test_core.py:19-21, 38-40   the nodes: the two of the tests and one that raises
NodeKinds == {"upper", "lower", "boom"}

\* test_core.py:27, 46   the initial states
InitialStates ==
    { [input |-> <<"h", "e", "l", "l", "o">>], [input |-> <<"H", "E", "L", "L", "O">>] }

\* the chains entry point -> ... -> END an engine is built with
Chains == { c \in SeqsUpTo(NodeKinds, MaxNodes) : c # <<>> }

\* what a node function returns for a state: the update, or that it raised
NodeRun(kind, state) ==
    IF kind = "upper" THEN [raised |-> FALSE, update |-> [output |-> Upper(state.input)]]
    ELSE IF kind = "lower" THEN [raised |-> FALSE, update |-> [output |-> Lower(state.input)]]
    ELSE [raised |-> TRUE, update |-> [error |-> "boom"]]

\* workflow_engine.py:155, 178   self._compiled.invoke / ainvoke: the nodes run
\* in the order of the edges, each update merged into a state of the graph's
\* own; an exception of a node leaves invoke at once
RECURSIVE GraphInvoke(_, _)
GraphInvoke(chain, state) ==
    IF chain = <<>> THEN [raised |-> FALSE, state |-> state]
    ELSE LET r == NodeRun(Head(chain), state)
         IN  IF r.raised THEN [raised |-> TRUE, state |-> state]
             ELSE GraphInvoke(Tail(chain), r.update @@ state)

NoResult == [success |-> FALSE, final_state |-> [none |-> <<>>], error |-> "none"]

RunKeepsPartialState(chain, initial_state) ==
    LET g == GraphInvoke(chain, initial_state)
    IN  IF g.raised
        THEN [success |-> FALSE, final_state |-> g.state, error |-> "boom"]
        ELSE [success |-> TRUE, final_state |-> g.state, error |-> "none"]
\* workflow_engine.py:154-163, 177-186   the try / except of run and run_sync
RunResult(chain, initial_state) ==
    LET g == GraphInvoke(chain, initial_state)
    IN  IF g.raised
        THEN [success |-> FALSE, final_state |-> initial_state, error |-> "boom"]
        ELSE [success |-> TRUE, final_state |-> g.state, error |-> "none"]

WorkflowAtRest ==
    /\ wfChain = <<>> /\ wfCompiled = FALSE /\ wfPc = "idle"
    /\ wfForm = "none" /\ wfInitial = [none |-> <<>>] /\ wfResult = NoResult

\* workflow_engine.py:45-51   __init__, then node / set_entry_point / add_edge
InitWorkflow ==
    /\ wfChain \in Chains /\ wfCompiled = FALSE /\ wfPc = "idle"
    /\ wfForm = "none" /\ wfInitial = [none |-> <<>>] /\ wfResult = NoResult

\* workflow_engine.py:112-140   compile
Compile ==
    /\ ~wfCompiled
    /\ wfCompiled' = TRUE
    /\ UNCHANGED <<wfChain, wfPc, wfForm, wfInitial, wfResult>>
    /\ UNCHANGED <<compVars, storeVars, streamVars, dispVars>>

\* workflow_engine.py:142-163   run (form "run") and 165-186 run_sync
Run(form) ==
    /\ \E initial_state \in InitialStates :
       /\ wfInitial' = initial_state
       /\ IF ~wfCompiled
          THEN \* lines 151-152, 174-175: RuntimeError
               /\ wfPc' = "raised"
               /\ wfResult' = NoResult
          ELSE /\ wfPc' = "returned"
               /\ wfResult' = RunResult(wfChain, initial_state)
    /\ wfForm' = form
    /\ UNCHANGED <<wfChain, wfCompiled>>
    /\ UNCHANGED <<compVars, storeVars, streamVars, dispVars>>

NextWorkflow == Compile \/ Run("run") \/ Run("run_sync")

(***************************************************************************)
(* SpecCompactor: invoke applied to every bounded input.                   *)
(***************************************************************************)
InitCompactor ==
    /\ max_tokens \in 1..MaxNative
    /\ recent_buffer \in 0..MaxRecent
    /\ cPc = "ready"
    /\ cIn \in Histories
    /\ cOut = <<>>
    /\ cCall = NoCall
    /\ cPrev = [tokens |-> 0, fallback |-> FALSE]
    /\ cRound = 0

\* one call of AutoCompactor.invoke(cIn)
CInvoke ==
    /\ cPc = "ready"
    /\ \E native \in NativeOutcomes, summ \in SummaryOutcomes :
          LET r == Invoke(cIn, max_tokens, recent_buffer, native, summ)
          IN /\ cOut' = r.out
             /\ cCall' = [r EXCEPT !.out = <<>>] @@ [text |-> IF r.summarized THEN summ.text ELSE ""]
    /\ cPc' = "returned"
    /\ cRound' = cRound + 1
    /\ UNCHANGED <<max_tokens, recent_buffer, cIn, cPrev>>
    /\ UNCHANGED storeVars
    /\ UNCHANGED <<streamVars, dispVars, wfVars>>

\* the returned list is given to invoke again (the next load of the same history)
CReapply ==
    /\ cPc = "returned"
    /\ cRound < MaxRounds
    /\ cIn' = cOut
    /\ cPc' = "ready"
    /\ cOut' = <<>>
    /\ cPrev' = [tokens |-> cCall.tokens, fallback |-> cCall.fallback]
    /\ cCall' = NoCall
    /\ UNCHANGED <<cRound, max_tokens, recent_buffer>>
    /\ UNCHANGED storeVars
    /\ UNCHANGED <<streamVars, dispVars, wfVars>>

\* context.py:24-43   the attributes an AppContext has
AppContextAttrs == {"slack", "p4", "current_request", "set_request_context"}

\* compactor.py:49-66   the notification block of invoke.  loop: a running
\* event loop exists (asyncio.get_running_loop returns); request: the
\* dispatcher has set a request context.  get_context() returns the AppContext
\* singleton, and reading an attribute it lacks raises AttributeError, which
\* the except of line 64 catches.
Notification(loop, request) ==
    IF ~loop THEN [scheduled |-> <<>>, caught |-> FALSE]
    ELSE IF "channel" \notin AppContextAttrs
    THEN [scheduled |-> <<>>, caught |-> TRUE]
    ELSE [scheduled |-> << [to |-> "ctx.channel", thread |-> "ctx.thread_ts"] >>,
          caught |-> FALSE]

\* one call of AutoCompactor.invoke(cIn), with the surroundings the
\* notification block looks at
CInvokeInLoop ==
    /\ cPc = "ready"
    /\ \E native \in NativeOutcomes, summ \in SummaryOutcomes,
          loop \in BOOLEAN, request \in BOOLEAN :
          LET r == Invoke(cIn, max_tokens, recent_buffer, native, summ)
              n == IF r.triggered THEN Notification(loop, request)
                   ELSE [scheduled |-> <<>>, caught |-> FALSE]
          IN /\ cOut' = r.out
             /\ cCall' = [r EXCEPT !.out = <<>>]
                          @@ [text |-> IF r.summarized THEN summ.text ELSE "",
                              loop |-> loop, request |-> request,
                              scheduled |-> n.scheduled, caught |-> n.caught]
    /\ cPc' = "returned"
    /\ cRound' = cRound + 1
    /\ UNCHANGED <<max_tokens, recent_buffer, cIn, cPrev>>
    /\ UNCHANGED storeVars
    /\ UNCHANGED <<streamVars, dispVars, wfVars>>

NextCompactorNotice == CInvokeInLoop \/ CReapply

NextCompactor == CInvoke \/ CReapply

\* the compactor exercised alone: no store operation runs
InitCompactorAlone ==
    InitCompactor /\ context_manager = "none" /\ StoreAtRest /\ StreamerAtRest
    /\ DispatcherAtRest /\ WorkflowAtRest

SpecCompactor == InitCompactorAlone /\ [][NextCompactor]_vars

CompactorAtRest ==
    /\ cPc = "ready" /\ cIn = <<>> /\ cOut = <<>> /\ cCall = NoCall
    /\ cPrev = [tokens |-> 0, fallback |-> FALSE] /\ cRound = 0

\* the compactor called with and without an event loop and a request context
InitCompactorNotice ==
    InitCompactor /\ context_manager = "none" /\ StoreAtRest /\ StreamerAtRest
    /\ DispatcherAtRest /\ WorkflowAtRest

SpecCompactorNotice == InitCompactorNotice /\ [][NextCompactorNotice]_vars

\* messages of a tool round: the assistant message that carries the tool call
\* and the tool-role message that answers it
ToolCallMsg(c, id) == [type |-> "ai", content |-> c, tool_calls |-> {id}]
ToolMsg(c, id) == [type |-> "tool", content |-> c, tool_call_id |-> id]

ToolPool ==
    { Msg("system", "sys"), Msg("human", "hello"), ToolCallMsg("", 1),
      ToolMsg("result", 1), Msg("ai", "answer!") }

CarriesCall(m, id) == "tool_calls" \in DOMAIN m /\ id \in m.tool_calls

\* each tool-role message comes after the assistant message carrying its call id
Paired(s) ==
    \A i \in 1..Len(s) :
       s[i].type = "tool" => \E j \in 1..(i - 1) : CarriesCall(s[j], s[i].tool_call_id)

ToolHistories == { h \in SeqsUpTo(ToolPool, MaxMsgs) : Paired(h) }

\* the compactor given histories with tool rounds
InitCompactorTools ==
    /\ max_tokens \in 1..MaxNative
    /\ recent_buffer \in 0..MaxRecent
    /\ cPc = "ready"
    /\ cIn \in ToolHistories
    /\ cOut = <<>>
    /\ cCall = NoCall
    /\ cPrev = [tokens |-> 0, fallback |-> FALSE]
    /\ cRound = 0
    /\ context_manager = "none" /\ StoreAtRest /\ StreamerAtRest /\ DispatcherAtRest /\ WorkflowAtRest

SpecCompactorTools == InitCompactorTools /\ [][NextCompactor]_vars

\* the store exercised with the compactor only called from get_tuple
InitStoreAlone ==
    InitStore /\ CompactorAtRest /\ StreamerAtRest /\ DispatcherAtRest /\ WorkflowAtRest

SpecStore == InitStoreAlone /\ [][NextStore]_vars

\* the store configured with a trimmer as context manager
InitStoreTrimmer ==
    /\ context_manager = "trimmer"
    /\ max_tokens = 1 /\ recent_buffer = 1
    /\ StoreAtRest /\ CompactorAtRest /\ StreamerAtRest /\ DispatcherAtRest /\ WorkflowAtRest

SpecStoreTrimmer == InitStoreTrimmer /\ [][NextStore]_vars

\* the store without context manager, called through both of its forms
InitStoreAsync ==
    /\ context_manager = "none"
    /\ max_tokens = 1 /\ recent_buffer = 1
    /\ StoreAtRest /\ CompactorAtRest /\ StreamerAtRest /\ DispatcherAtRest /\ WorkflowAtRest

SpecStoreAsync == InitStoreAsync /\ [][NextStoreAsync]_vars

\* the streamer exercised alone, next to an unused store and compactor
InitStreamerAlone ==
    /\ InitStreamer
    /\ max_tokens = 1 /\ recent_buffer = 1 /\ context_manager = "none"
    /\ CompactorAtRest /\ StoreAtRest /\ DispatcherAtRest /\ WorkflowAtRest

SpecStreamer == InitStreamerAlone /\ [][NextStreamer]_vars

\* the streamer given several calls of start
InitRestartAlone ==
    /\ InitStreamer
    /\ max_tokens = 1 /\ recent_buffer = 1 /\ context_manager = "none"
    /\ CompactorAtRest /\ StoreAtRest /\ DispatcherAtRest /\ WorkflowAtRest

SpecRestart == InitRestartAlone /\ [][NextRestart]_vars

\* update_status called on a freshly constructed streamer
InitStatusAlone ==
    /\ StreamerAtRest
    /\ max_tokens = 1 /\ recent_buffer = 1 /\ context_manager = "none"
    /\ CompactorAtRest /\ StoreAtRest /\ DispatcherAtRest /\ WorkflowAtRest

SpecStatus == InitStatusAlone /\ [][NextStatus]_vars

\* one turn of handle_event_trigger, next to an unused store, compactor and streamer
InitDispatcherAlone ==
    /\ InitDispatcher
    /\ max_tokens = 1 /\ recent_buffer = 1 /\ context_manager = "none"
    /\ CompactorAtRest /\ StoreAtRest /\ StreamerAtRest /\ WorkflowAtRest

SpecDispatcher == InitDispatcherAlone /\ [][NextDispatcher]_vars

\* one engine built, compiled and run, next to everything else unused
InitWorkflowAlone ==
    /\ InitWorkflow
    /\ max_tokens = 1 /\ recent_buffer = 1 /\ context_manager = "none"
    /\ CompactorAtRest /\ StoreAtRest /\ StreamerAtRest /\ DispatcherAtRest

SpecWorkflow == InitWorkflowAlone /\ [][NextWorkflow]_vars



(***************************************************************************)
(* Properties of CustomSqliteSaver                                         *)
(***************************************************************************)
MaxOf(S) == CHOOSE x \in S : \A y \in S : y <= x

\* revisions for which a put on thread t has been executed so far
PutRevs(t) == { v \in Revs : lastPut[t][v].done }

\* what a latest-revision get_tuple for thread t may return in this state
LatestReads(t) ==
    GetTupleResults(table, t, 0, context_manager, max_tokens, recent_buffer)

\* C1: after any sequence of puts the table holds at most one row per
\* (thread_id, thread_ts); a put on an existing pair replaces its row; reading
\* the pair gives the checkpoint and metadata of the most recent put for it
\* (the checkpoint exactly as stored when no context manager rewrites it).
C1_UpsertOneRowPerKey ==
    /\ \A r1 \in table, r2 \in table :
          (r1.thread_id = r2.thread_id /\ r1.thread_ts = r2.thread_ts) => r1 = r2
    /\ \A t \in Threads, v \in Revs :
          LET rows == SelectExact(table, t, v)
              last == lastPut[t][v]
          IN IF ~last.done THEN rows = {}
             ELSE /\ Cardinality(rows) = 1
                  /\ \A row \in rows :
                       /\ Unpickle(row.checkpoint) = last.checkpoint
                       /\ Unpickle(row.metadata) = last.metadata
                  /\ \A res \in GetTupleResults(table, t, v, context_manager,
                                                max_tokens, recent_buffer) :
                       /\ res.found /\ res.thread_ts = v /\ res.checkpoint.id = v
                       /\ res.metadata = last.metadata
                       /\ context_manager = "none" => res.checkpoint = last.checkpoint

C1_Witness ==
    /\ replaced /\ puts = 2 /\ Cardinality(table) = 1
    /\ \E r \in Readers : rRet[r].found /\ rArg[r].thread_ts # 0
                           /\ rRet[r].metadata = lastPut[rArg[r].thread_id][rArg[r].thread_ts].metadata

\* C2: get_tuple without a revision id returns the checkpoint of that thread
\* with the greatest revision id among the thread's rows, and None exactly
\* when no put was ever made for the thread.
C2_LatestOfThread ==
    \A t \in Threads :
       \A res \in LatestReads(t) :
          /\ res.found <=> PutRevs(t) # {}
          /\ res.found =>
                /\ res.thread_id = t
                /\ \A row \in RowsOf(table, t) : row.thread_ts <= res.thread_ts
                /\ \E row \in RowsOf(table, t) :
                      /\ row.thread_ts = res.thread_ts
                      /\ Unpickle(row.checkpoint).id = res.checkpoint.id
                      /\ Unpickle(row.metadata) = res.metadata
                      /\ row.parent_ts = res.parent

C2_Witness ==
    \E r \in Readers :
       /\ rArg[r].thread_ts = 0 /\ rRet[r].found
       /\ Cardinality(RowsOf(table, rArg[r].thread_id)) = 2
       /\ rRet[r].thread_ts = MaxOf({ row.thread_ts : row \in RowsOf(table, rArg[r].thread_id) })
       /\ RowsOf(table, "B") = {} /\ LatestReads("B") = { NoTuple }

\* C3 as stated: once a put for thread T has completed (and none is between
\* its commit and its return), a latest-revision get_tuple for T returns the
\* revision written by the most recently completed put for T.
C3_ReturnsMostRecentlyCompleted ==
    \A t \in Threads :
       (lastDone[t] # 0 /\ \A w \in Writers : ~(wPc[w] = "ret" /\ wArg[w].thread_id = t))
       => \A res \in LatestReads(t) : res.found /\ res.thread_ts = lastDone[t]

\* C3 amended: once a put for thread T has completed, a latest-revision
\* get_tuple for T returns the greatest revision id put for T so far (never a
\* revision below that of a completed put) with the metadata of the most
\* recent put for that revision; it is the revision of the most recently
\* completed put whenever that put carried the greatest id.
C3_ReturnsGreatestCompleted ==
    \A t \in Threads :
       lastDone[t] # 0
       => \A res \in LatestReads(t) :
             /\ res.found
             /\ res.thread_ts >= lastDone[t]
             /\ res.thread_ts = MaxOf(PutRevs(t))
             /\ res.checkpoint.id = res.thread_ts
             /\ res.metadata = lastPut[t][res.thread_ts].metadata
             /\ (lastDone[t] = MaxOf(PutRevs(t))) => res.thread_ts = lastDone[t]

C3_Witness ==
    \E r \in Readers :
       /\ \A w \in Writers : wPc[w] = "idle"
       /\ puts = 2 /\ lastDone[rArg[r].thread_id] = 1
       /\ rArg[r].thread_ts = 0 /\ rRet[r].found /\ rRet[r].thread_ts = 2

(***************************************************************************)
(* Properties of AutoCompactor.invoke                                      *)
(***************************************************************************)
\* the last k entries of s, by index
LastN(s, k) == [i \in 1..k |-> s[Len(s) - k + i]]

\* the leading contiguous run of system messages, and what follows it
RECURSIVE LeadingSystemLen(_)
LeadingSystemLen(s) ==
    IF s = <<>> \/ Head(s).type # "system" THEN 0 ELSE 1 + LeadingSystemLen(Tail(s))
LeadingSystemRun(s) == SubSeq(s, 1, LeadingSystemLen(s))
Remainder(s) == SubSeq(s, LeadingSystemLen(s) + 1, Len(s))

\* C4: if the summarization call raises during invoke, invoke does not raise
\* and returns the original message list unmodified.
C4_FailOpenOnSummaryError ==
    (cPc = "returned" /\ cCall.summRaised) => (~cCall.raised /\ cOut = cIn)

C4_Witness ==
    /\ cPc = "returned" /\ cCall.summRaised
    /\ Len(NonSystem(cIn)) > recent_buffer /\ recent_buffer >= 1

\* C5: when the estimate invoke compared is strictly below max_tokens the input
\* is returned unchanged; and when the same estimator (the deterministic
\* fallback) is used on the result of such a no-op, that call is a no-op too.
C5_NoOpUnderBudget ==
    /\ (cPc = "returned" /\ cCall.tokens < max_tokens) => cOut = cIn
    /\ (/\ cPc = "returned" /\ cRound >= 2
        /\ cPrev.fallback /\ cPrev.tokens < max_tokens /\ cCall.fallback)
       => (cCall.tokens = cPrev.tokens /\ cOut = cIn)

C5_Witness ==
    /\ cPc = "returned" /\ cRound >= 2
    /\ cPrev.fallback /\ cPrev.tokens < max_tokens /\ cCall.fallback
    /\ cCall.tokens = max_tokens - 1
    /\ Len(NonSystem(cIn)) > recent_buffer

\* C6: for an input at or over budget with more than recent_buffer non-system
\* messages, the last recent_buffer non-system entries of the result are the
\* last recent_buffer non-system entries of the input, in the same order.
C6_RecentKept ==
    (/\ cPc = "returned" /\ cCall.tokens >= max_tokens
     /\ Len(NonSystem(cIn)) > recent_buffer)
    => /\ Len(NonSystem(cOut)) >= recent_buffer
       /\ LastN(NonSystem(cOut), recent_buffer) = LastN(NonSystem(cIn), recent_buffer)

C6_Witness ==
    /\ cPc = "returned" /\ cCall.summarized
    /\ recent_buffer = 1 /\ Len(NonSystem(cIn)) = 2
    /\ cIn[Len(cIn)].type = "system"

\* C7: when compaction triggers, the summarization call succeeds and the
\* remainder (everything after the leading system run) is longer than
\* recent_buffer, the result is exactly leading system run + one summary
\* system message carrying the summarization text + the last recent_buffer
\* messages of the remainder.
C7_ResultShape ==
    (/\ cPc = "returned" /\ cCall.triggered /\ ~cCall.summRaised
     /\ Len(Remainder(cIn)) > recent_buffer)
    => /\ cCall.summarized
       /\ cOut = LeadingSystemRun(cIn)
                 \o << Msg("system", SummaryHeader \o cCall.text) >>
                 \o LastN(Remainder(cIn), recent_buffer)
       /\ Len(cOut) = LeadingSystemLen(cIn) + 1 + recent_buffer

(***************************************************************************)
(* Properties of SlackStreamer                                             *)
(***************************************************************************)
ThoughtStart == ReasonedResponse[1]                                \* "thou"
ThoughtEnd == ReasonedResponse[2] \o ReasonedResponse[3]           \* "ght: internal\n"
RealAnswer == ReasonedResponse[4]                                  \* "Real answer."
AnswerIsTho == PlainResponse[1] \o PlainResponse[2]                \* "Answer is tho"
Rough == PlainResponse[3]                                          \* "rough."

\* the texts of the append calls that returned, in order
Texts(calls) == [i \in 1..Len(calls) |-> calls[i].text]
Accepted(calls) == SelectSeq(calls, LAMBDA c : c.ok)

NoTransportFailure ==
    /\ \A i \in 1..Len(appends) : appends[i].ok
    /\ \A i \in 1..Len(statusCalls) : statusCalls[i].ok

Contents(toks) == [i \in 1..Len(toks) |-> toks[i].content]
FlushedAfterEach(toks) == \A i \in 1..Len(toks) : toks[i].flushed /\ toks[i].bound

IsPrefix(p, s) == Len(p) <= Len(s) /\ SubSeq(s, 1, Len(p)) = p

\* s ends, case-insensitively, with a non-empty proper prefix of "thought:"
EndsInProperPrefix(s) ==
    \E n \in 1..7 :
        /\ n <= Len(s)
        /\ Lower(SubSeq(s, Len(s) - n + 1, Len(s)))
             = SubSeq(<<"t", "h", "o", "u", "g", "h", "t", ":">>, 1, n)

\* C8: reasoning suppression.  When 'thou', 'ght: internal<newline>' and
\* 'Real answer.' are pushed through handle_token on a started streamer, with
\* _flush_buffer run after each and no transport call failing, exactly one
\* append reaches the transport and its text is 'Real answer.'; and however
\* the reasoning-prefixed response is split into tokens, what has been
\* appended so far is part of the visible text 'Real answer.' only: no marker
\* text and no text of the reasoning line.
C8_ReasoningSuppressed ==
    /\ ( /\ Contents(tokens) = <<ThoughtStart, ThoughtEnd, RealAnswer>>
         /\ FlushedAfterEach(tokens)
         /\ stopCalls = 0
         /\ NoTransportFailure )
       => Texts(appends) = << RealAnswer >>
    /\ ( /\ Concat(Contents(tokens)) \o Concat(rest) = Concat(ReasonedResponse)
         /\ NoTransportFailure )
       => IsPrefix(Concat(Texts(appends)), RealAnswer)

\* the guard of _flush_buffer: a run of it on a buffer that ends in a proper
\* prefix of the marker appends nothing and keeps the buffer
GuardWithholds ==
    (lastOp.op = "token" /\ lastOp.flushed /\ EndsInProperPrefix(lastOp.buf0))
    => (lastOp.sent = <<>> /\ buffer = lastOp.buf0)

\* 'Answer is tho' then 'rough.'
ThoroughExample ==
    ( /\ Contents(tokens) = <<AnswerIsTho, Rough>>
      /\ FlushedAfterEach(tokens)
      /\ stopCalls = 0
      /\ NoTransportFailure )
    => Texts(appends) = << AnswerIsTho \o Rough >>

\* the run of _flush_buffer after one that was withheld, on a bound handle
\* and a buffer that no longer ends in a proper prefix of the marker
FlushAfterWithheld ==
    /\ lastOp.op = "token" /\ lastOp.flushed /\ lastOp.heldBefore
    /\ ~EndsInProperPrefix(lastOp.buf0)
    /\ lastOp.bound

\* C9 as stated: a flush attempt on a buffer ending in a non-empty proper
\* prefix of 'thought:' sends nothing and keeps the buffer; the next flush on
\* a buffer that no longer ends so emits the whole withheld text in one
\* append; 'Answer is tho' then 'rough.' emits exactly 'Answer is thorough.'.
C9_WithheldTextEmittedWhole ==
    /\ GuardWithholds
    /\ FlushAfterWithheld
       => (Len(lastOp.sent) = 1 /\ lastOp.sent[1].text = lastOp.buf0)
    /\ ThoroughExample

\* C9 (amended): a flush attempt on a buffer ending in a non-empty proper
\* prefix of 'thought:' sends nothing and keeps the buffer; the next flush on
\* a buffer that no longer ends so passes the buffer with its line-leading
\* 'thought:' markers removed to the transport in one append, and makes no
\* append when nothing is left after the removal; the buffer is emptied
\* unless nothing was left or the append raised.  'Answer is tho' then
\* 'rough.' emits exactly 'Answer is thorough.'.
C9_WithheldThenCleanedFlush ==
    /\ GuardWithholds
    /\ FlushAfterWithheld
       => LET clean_text == CleanThought(lastOp.buf0)
          IN IF clean_text = <<>>
             THEN lastOp.sent = <<>> /\ buffer = lastOp.buf0
             ELSE /\ Len(lastOp.sent) = 1
                  /\ lastOp.sent[1].text = clean_text
                  /\ buffer = IF lastOp.sent[1].ok THEN <<>> ELSE lastOp.buf0
    /\ ThoroughExample

\* a flush was withheld on 'Answer is tho' and the next one appended
\* 'Answer is thorough.'
C9_Witness ==
    /\ Contents(tokens) = <<AnswerIsTho, Rough>>
    /\ FlushAfterWithheld
    /\ Texts(Accepted(appends)) = << AnswerIsTho \o Rough >>
    /\ buffer = <<>>

Count(calls, kind) == Len(SelectSeq(calls, LAMBDA c : c.kind = kind))

\* C10: status throttling.  Every update_status(messages=[...]) makes a
\* transport status call, whatever the time.  The first
\* update_status(status_text=...) makes one; a later one makes none while no
\* more than 0.5 s have passed since a status_text call the transport
\* accepted, so that two calls in one window make exactly one transport call.
C10_StatusThrottle ==
    /\ Count(statusCalls, "loading") = majorCalls
    /\ Count(statusCalls, "status") = Len(SelectSeq(minorCalls, LAMBDA c : c.sent))
    /\ minorCalls # <<>> => minorCalls[1].sent
    /\ \A i, j \in 1..Len(minorCalls) :
         (i < j /\ minorCalls[i].ok /\ minorCalls[j].at - minorCalls[i].at <= 5)
         => ~minorCalls[j].sent

\* with no time passing, two status_text calls made one transport call and
\* two messages calls made two
C10_Witness ==
    /\ now = Epoch
    /\ Len(minorCalls) = 2
    /\ minorCalls[1].ok /\ ~minorCalls[2].sent
    /\ majorCalls = 2
    /\ Count(statusCalls, "loading") = 2
    /\ Count(statusCalls, "status") = 1

(***************************************************************************)
(* The load-time hook of get_tuple                                         *)
(***************************************************************************)
\* C11: when a context manager is configured and its invoke raises during
\* get_tuple, get_tuple still returns the tuple of the fetched row, with the
\* checkpoint (message list included), metadata and parent exactly as stored.
C11_HookFailOpen ==
    \A t \in Threads, ts \in {0} \cup Revs :
       \A res \in GetTupleResults(table, t, ts, context_manager, max_tokens, recent_buffer) :
          res.hook = "raised"
          => /\ context_manager # "none"
             /\ res.found
             /\ \E row \in Query(table, t, ts) :
                   /\ res.checkpoint = Unpickle(row.checkpoint)
                   /\ res.metadata = Unpickle(row.metadata)
                   /\ res.parent = row.parent_ts
                   /\ res.thread_ts = row.thread_ts

\* a reader got a checkpoint whose hook raised, with its three messages
C11_Witness ==
    \E r \in Readers :
       /\ rRet[r].hook = "raised"
       /\ rRet[r].found
       /\ Len(rRet[r].checkpoint.messages) = 3

(***************************************************************************)
(* Failures of the transport under SlackStreamer                           *)
(***************************************************************************)
\* C12: stop() never raises; also when its final append fails it makes the
\* call that clears the status indicator and stops the stream handle it holds.
C12_StopNeverRaises ==
    lastOp.op = "stop"
    => /\ ~lastOp.raised
       /\ lastOp.cleared
       /\ lastOp.bound => lastOp.released

\* C13: when the append of a flush inside handle_token raises, handle_token
\* does not raise, the buffer still holds the whole text and
\* last_update_time is not advanced, so the flush is still due and the text
\* goes to the transport again with the next flush.
C13_FailedFlushRetained ==
    ( /\ lastOp.op = "token" /\ lastOp.flushed
      /\ Len(lastOp.sent) = 1 /\ ~lastOp.sent[1].ok )
    => /\ ~lastOp.raised
       /\ buffer = lastOp.buf0
       /\ buffer # <<>>
       /\ now - last_update_time > THROTTLE_INTERVAL
       /\ appends[Len(appends)] = lastOp.sent[1]

\* an append of 'Answer is ' failed and the next flush sent
\* 'Answer is thorough.'
C13_Witness ==
    /\ Len(appends) = 2
    /\ ~appends[1].ok /\ appends[1].text = PlainResponse[1]
    /\ appends[2].ok /\ appends[2].text = Concat(PlainResponse)
    /\ lastOp.op = "token"
    /\ buffer = <<>>

(***************************************************************************)
(* The exit paths of handle_event_trigger                                  *)
(***************************************************************************)

\* C14: once the stream wrapper has been obtained, every way out of the agent
\* event loop, the stream running out or an exception, performs the stop in
\* full: the buffered answer text is flushed to the transport, the status
\* indicator is cleared and an open transport stream is released.  Stated for
\* the exits during which no transport call fails.
C14_ExitStopsInFull ==
    (dExit.entered /\ ~dExit.failed) =>
        /\ Strip(CleanThought(dExit.buf)) # <<>> => dExit.finalFlush
        /\ dExit.statusCleared
        /\ dExit.open => dExit.released

\* C15: when the turn fails and the error notice is sent, a failure of that
\* send is swallowed: handle_event_trigger does not raise because of it.
C15_NoticeFailureSwallowed ==
    (dExit.notice # "none" /\ ~dExit.noticeOk) => ~dExit.raised

(***************************************************************************)
(* The asynchronous forms of CustomSqliteSaver                             *)
(***************************************************************************)

\* a step in which writer w has awaited aput
AsyncPutStep(w) == wPc[w] = "idle" /\ wPc'[w] \in {"aret", "araised"}

\* C16: the asynchronous forms are observably identical to the synchronous
\* ones: a step of aput does not fail (put does not) and leaves the store as
\* put would, with the row of its thread and revision inserted or replaced.
C16_AsyncSameAsSync ==
    [][\A w \in Writers :
          AsyncPutStep(w) =>
             /\ wPc'[w] = "aret"
             /\ \E row \in table' :
                   /\ row.thread_id = wArg'[w].thread_id
                   /\ row.thread_ts = wArg'[w].checkpoint.id
                   /\ table' = InsertOrReplace(table, row)]_vars

(***************************************************************************)
(* put against concurrent reads                                            *)
(***************************************************************************)

\* the puts that have written their row and not yet returned
PutsInFlight == { w \in Writers : wPc[w] = "ret" }

\* C17: put is atomic for concurrent reads.  Whatever writers are inside put,
\* a get_tuple of a (thread, revision) finds no row when no put has written
\* it, and otherwise one whole row: state, metadata and parent are those of
\* the same put, the last that wrote the key.
C17_PutAtomic ==
    \A t \in Threads, v \in Revs :
       \A res \in GetTupleResults(table, t, v, context_manager, max_tokens, recent_buffer) :
          LET last == lastPut[t][v]
          IN  /\ res.found <=> last.done
              /\ res.found =>
                    /\ res.checkpoint.id = last.checkpoint.id
                    /\ res.checkpoint.has_messages = last.checkpoint.has_messages
                    /\ res.hook = "skipped" => res.checkpoint = last.checkpoint
                    /\ res.metadata = last.metadata
                    /\ res.parent = last.parent

\* a reader got the whole new row of a key while the put that replaced the
\* key's row had not yet returned
C17_Witness ==
    \E w \in PutsInFlight, r \in Readers :
       /\ replaced /\ puts = 2
       /\ \A w2 \in Writers \ {w} : wPc[w2] = "idle"
       /\ rArg[r].thread_id = wArg[w].thread_id
       /\ rArg[r].thread_ts = wArg[w].checkpoint.id
       /\ rRet[r].found
       /\ rRet[r].hook = "skipped"
       /\ LET last == lastPut[rArg[r].thread_id][rArg[r].thread_ts]
          IN  /\ rRet[r].checkpoint = last.checkpoint
              /\ rRet[r].metadata = last.metadata
              /\ rRet[r].parent = last.parent

(***************************************************************************)
(* Tool rounds under compaction                                            *)
(***************************************************************************)

\* C18: compaction preserves tool-call pairing: when every tool-role message
\* of the input comes after the assistant message carrying its call id, so
\* does every tool-role message of the list AutoCompactor.invoke returns.
C18_ToolPairingPreserved ==
    (cPc = "returned" /\ Paired(cIn)) => Paired(cOut)

(***************************************************************************)
(* max_tokens and the size of what invoke returns                          *)
(***************************************************************************)

\* C19 as stated: max_tokens bounds the estimated token count of the sequence
\* the compactor hands back to get_tuple.  Stated for the calls that estimate
\* with the fallback of invoke, len(content) summed and divided by 4, and
\* measured with that same estimate.
C19_MaxTokensBoundsResult ==
    (cPc = "returned" /\ cCall.fallback) => FallbackTokens(cOut) <= max_tokens

\* C19, amended: max_tokens is the threshold that triggers compaction, not a
\* bound on the result.  Compaction triggers exactly when the estimate invoke
\* compared is at or over max_tokens; below it the input is returned as it is.
\* When it triggers, the result is the input unchanged (no summary was made)
\* or the input with the summarized messages replaced by one summary message,
\* whatever its size.
C19_MaxTokensIsThreshold ==
    cPc = "returned" =>
        /\ cCall.triggered <=> cCall.tokens >= max_tokens
        /\ ~cCall.triggered => cOut = cIn
        /\ (cCall.triggered /\ ~cCall.summarized) => cOut = cIn
        /\ cCall.summarized =>
              /\ Len(cOut) = Len(cIn) + 1
                             - Len(ToSummarize(NonSystem(cIn), recent_buffer))
              /\ \E i \in 1..Len(cOut) : cOut[i] = SummaryMessage(cCall.text)

\* a compacted result whose own estimate is over max_tokens
C19_Witness ==
    /\ cPc = "returned" /\ cCall.summarized /\ cCall.fallback
    /\ recent_buffer >= 1
    /\ Len(ToSummarize(NonSystem(cIn), recent_buffer)) >= 1
    /\ FallbackTokens(cOut) > max_tokens

(***************************************************************************)
(* SlackStreamer after stop                                                *)
(***************************************************************************)

\* C20: STOPPED is terminal: once a stop() has run through to the release of
\* the stream handle, a later handle_token appends nothing to the transport.
\* (Whether the release itself raised leaves no trace in the streamer, so
\* every state after such a stop is also a state after a stop that returned.)
C20_StoppedIsTerminal ==
    (closed # {} /\ lastOp.op = "token") => lastOp.sent = <<>>

(***************************************************************************)
(* start called again                                                      *)
(***************************************************************************)

\* C21: start is once only: a call of start on a streamer that already holds
\* a stream handle is rejected, so the handle a streamer holds is never
\* replaced by another.
C21_StartOnceOnly ==
    [][streamer # 0 => streamer' = streamer]_vars

(***************************************************************************)
(* The compaction notice                                                   *)
(***************************************************************************)

\* C22: when invoke triggers compaction with a live event loop and a request
\* context, it schedules exactly one notice; with no live event loop it
\* schedules none; and the notification never makes invoke raise.
C22_NoticeScheduledOnce ==
    (cPc = "returned" /\ cCall.triggered) =>
        /\ (cCall.loop /\ cCall.request) => Len(cCall.scheduled) = 1
        /\ ~cCall.loop => cCall.scheduled = <<>>
        /\ ~cCall.raised

(***************************************************************************)
(* WorkflowEngine.run and run_sync                                         *)
(***************************************************************************)

\* C23: on a compiled engine run and run_sync return a WorkflowResult and do
\* not raise.  When every node succeeds, success is true and final_state is
\* the state the graph produced; when a node raises, success is false, error
\* is set and final_state is the initial state, untouched.  Stated of every
\* step a compiled engine takes, which is a call of one of the two forms.
C23_RunReturnsResult ==
    [][wfCompiled =>
        /\ wfPc' = "returned"
        /\ wfForm' \in {"run", "run_sync"}
        /\ LET g == GraphInvoke(wfChain, wfInitial')
           IN  /\ wfResult'.success <=> ~g.raised
               /\ wfResult'.success =>
                     /\ wfResult'.final_state = g.state
                     /\ wfResult'.error = "none"
                     /\ wfResult'.final_state.input = wfInitial'.input
                     /\ wfResult'.final_state.output \in
                           {Upper(wfInitial'.input), Lower(wfInitial'.input)}
               /\ ~wfResult'.success =>
                     /\ wfResult'.error # "none"
                     /\ wfResult'.final_state = wfInitial']_vars

\* run_sync has run a chain whose second node raised after the first had
\* produced an update
C23_Witness ==
    /\ wfCompiled /\ wfPc = "returned" /\ wfForm = "run_sync"
    /\ Len(wfChain) = 2 /\ wfChain[1] = "upper" /\ wfChain[2] = "boom"
    /\ ~wfResult.success /\ wfResult.final_state = wfInitial
    /\ DOMAIN wfInitial = {"input"}

(***************************************************************************)
(* The flush gate of handle_token                                          *)
(***************************************************************************)

\* a step in which handle_token was given a non-empty token
TokenStep == Len(tokens') = Len(tokens) + 1

\* the step made a transport append that succeeded
AppendedOk ==
    /\ Len(appends') = Len(appends) + 1
    /\ appends'[Len(appends')].ok

\* C24: handle_token attempts a flush only when more than throttle_interval
\* has passed since the last successful flush; otherwise the token is only
\* added to the buffer.  last_update_time is the time of that flush: it moves
\* only in a step that flushes, to the time of the step.  Hence a successful
\* append of handle_token comes more than throttle_interval after the one
\* before it.
C24_FlushGate ==
    [][/\ TokenStep =>
            LET tk == tokens'[Len(tokens')]
                elapsed == now - last_update_time
            IN  /\ tk.flushed => elapsed > THROTTLE_INTERVAL
                /\ elapsed <= THROTTLE_INTERVAL =>
                      /\ appends' = appends
                      /\ last_update_time' = last_update_time
                      /\ buffer' \in {buffer, buffer \o tk.content}
                /\ AppendedOk =>
                      /\ elapsed > THROTTLE_INTERVAL
                      /\ last_update_time' = now
       /\ last_update_time' # last_update_time =>
            /\ TokenStep
            /\ last_update_time' = now
            /\ last_update_time < now
       /\ last_update_time' >= last_update_time]_vars

\* a second successful append of handle_token, a tick after the first
C24_Witness ==
    /\ Len(appends) = 2 /\ appends[1].ok /\ appends[2].ok
    /\ stopCalls = 0
    /\ lastOp.op = "token" /\ Len(lastOp.sent) = 1
    /\ last_update_time = now /\ now > Epoch + THROTTLE_INTERVAL

(***************************************************************************)
(* Reads and the stored rows                                               *)
(***************************************************************************)

\* a step in which some reader's get_tuple returned
ReadStep == rRet' # rRet \/ rArg' # rArg

\* C25: reading never mutates the store: a get_tuple, with or without a
\* context manager and whether or not compaction triggers, leaves every row of
\* the table as it was; what the hook changes is the copy it returns.
C25_ReadLeavesStore ==
    [][ReadStep => table' = table]_vars

\* a reader holds a compacted copy of a row that is still stored as it was put
C25_Witness ==
    \E r \in Readers :
       /\ context_manager = "compactor"
       /\ rRet[r].found /\ rRet[r].hook = "ok"
       /\ \E row \in SelectExact(table, rRet[r].thread_id, rRet[r].thread_ts) :
             /\ Unpickle(row.checkpoint).messages # rRet[r].checkpoint.messages
             /\ Unpickle(row.checkpoint) =
                   lastPut[row.thread_id][row.thread_ts].checkpoint

(***************************************************************************)
(* Parent linkage                                                          *)
(***************************************************************************)

\* C26: a row has a null parent revision only if it is the first revision
\* written for its thread: a put that adds or rewrites a row of a thread which
\* already holds another revision records a non-null parent (0 stands for the
\* NULL of parent_ts).
C26_NullParentOnlyFirst ==
    [][\A t \in Threads :
          \A row \in RowsOf(table', t) \ RowsOf(table, t) :
             (\E old \in RowsOf(table, t) : old.thread_ts # row.thread_ts)
                => row.parent_ts # 0]_vars

(***************************************************************************)
(* The dispatcher's token path next to SlackStreamer's, both given the     *)
(* same response cut into the same tokens at the same times: a token goes  *)
(* to handle_token first and to the on_chat_model_stream branch next, and  *)
(* the clock both read moves between two tokens only.  The transport       *)
(* accepts every call here, so that the two differ by their own rules only.*)
(***************************************************************************)
RoutingTickSteps == TokenTickSteps \cup DispatchTickSteps

\* no call of the dispatcher's turn has failed
DispatcherUnfailed ==
    /\ dPc \in {"idle", "loop", "returned"}
    /\ ~dExit.failed
    /\ \A i \in 1..Len(dAppends) : dAppends[i].ok

\* one response handed to both
InitRouting ==
    /\ InitStreamer
    /\ InitDispatcher
    /\ dRest = rest
    /\ max_tokens = 1 /\ recent_buffer = 1 /\ context_manager = "none"
    /\ CompactorAtRest /\ StoreAtRest /\ WorkflowAtRest

\* slack_streamer.py:33-40   start, once, before the first token
RStart == streamer = 0 /\ Start

\* dispatcher.py:16-68   the turn begins
RBegin == DBegin /\ DispatcherUnfailed'

\* slack_streamer.py:60-77   the next token, given to handle_token
RPush ==
    /\ streamer = 1 /\ dPc = "loop" /\ stopCalls = 0
    /\ rest = dRest
    /\ HandleToken
    /\ rest' # rest
    /\ NoTransportFailure' /\ ~lastOp'.raised

\* dispatcher.py:100-156   the same token, as an on_chat_model_stream event
\* whose chunk has content only (no "thought" among its additional_kwargs):
\* such a chunk is passed over only for holding "thought:"
RRoute ==
    /\ rest # dRest
    /\ DToken
    /\ dRest' = rest
    /\ DispatcherUnfailed'
    /\ (dBuffer' = dBuffer /\ dAppends' = dAppends)
          => Contains(Lower(tokens[Len(tokens)].content), target)

\* time.time() as both read it
RTick ==
    /\ rest = dRest
    /\ \E d \in RoutingTickSteps :
         /\ now + d <= Epoch + MaxTime
         /\ now' = now + d
         /\ dNow' = dNow + d
    /\ UNCHANGED <<streamer, buffer, last_update_time, response_started,
                   last_status_update_time, rest, appends, statusCalls, tokens,
                   minorCalls, majorCalls, withheld, stopCalls, closed, lastOp>>
    /\ UNCHANGED <<dPc, dMsgTs, dBuffer, dLastUpdate, dLastStatus, dStarted,
                   dRest, dSdk, dAppends, dExit>>
    /\ UNCHANGED <<compVars, storeVars, wfVars>>

\* slack_streamer.py:112-124   stop, after the last token
RStop ==
    /\ rest = <<>> /\ dRest = <<>> /\ streamer = 1
    /\ Stop
    /\ NoTransportFailure' /\ ~lastOp'.raised

\* dispatcher.py:158-170   the event stream runs out after the last token
RExhausted == rest = <<>> /\ DExhausted /\ DispatcherUnfailed'

NextRouting == RStart \/ RBegin \/ RPush \/ RRoute \/ RTick \/ RStop \/ RExhausted

SpecRouting == InitRouting /\ [][NextRouting]_vars

\* both have taken the whole response and ended
RoutedToEnd ==
    /\ rest = <<>> /\ dRest = <<>>
    /\ stopCalls = 1 /\ lastOp.op = "stop"
    /\ dPc = "returned" /\ dExit.how = "exhausted"
    /\ NoTransportFailure /\ DispatcherUnfailed

\* C27: given the same token events at the same times, handle_event_trigger
\* appends to the transport the same texts, in the same order, as
\* SlackStreamer.handle_token followed by stop appends.
C27_SameAppends == RoutedToEnd => Texts(dAppends) = Texts(appends)

\* each message's length integer-divided by 4, the quotients summed
RECURSIVE SumOfQuotients(_)
SumOfQuotients(s) ==
    IF s = <<>> THEN 0 ELSE (Len(Head(s).content) \div 4) + SumOfQuotients(Tail(s))

\* C28: when the model-native tokenizer raises, the estimate compared against
\* max_tokens is the sum over the messages of len(content) // 4.
C28_FallbackPerMessage ==
    (cPc = "returned" /\ cCall.fallback) => cCall.tokens = SumOfQuotients(cIn)

(***************************************************************************)
(* The token path given a response whose tokens begin and end with white   *)
(* space, the way a chat model cuts its text ("Hi", " you.", "\n").        *)
(***************************************************************************)
SpacedResponse ==        \* "Hi you.\n"
    << <<"H", "i">>, <<" ", "y", "o", "u", ".">>, <<"\n">> >>

IndentedResponse ==      \* "thought: a\n thought: b"
    << <<"t", "h", "o", "u", "g", "h", "t", ":", " ", "a", "\n">>,
       <<" ", "t", "h", "o", "u", "g", "h", "t", ":", " ", "b">> >>

SpacedResponses == { SpacedResponse, IndentedResponse, PlainResponse }

\* slack_streamer.py:19-31   __init__, and the response about to be streamed
InitSpaced ==
    /\ streamer = 0
    /\ buffer = <<>>
    /\ last_update_time = 0
    /\ response_started = FALSE
    /\ last_status_update_time = 0
    /\ now = Epoch
    /\ rest \in SpacedResponses
    /\ appends = <<>>
    /\ statusCalls = <<>>
    /\ tokens = <<>>
    /\ minorCalls = <<>>
    /\ majorCalls = 0
    /\ withheld = FALSE
    /\ stopCalls = 0
    /\ closed = {}
    /\ lastOp = NoOp

InitSpacedAlone ==
    /\ InitSpaced
    /\ max_tokens = 1 /\ recent_buffer = 1 /\ context_manager = "none"
    /\ CompactorAtRest /\ StoreAtRest /\ DispatcherAtRest /\ WorkflowAtRest

SpecSpaced == InitSpacedAlone /\ [][NextStreamer]_vars

\* start came before the first token, stop came once and last, and no call
\* of the transport failed
StreamedToStop ==
    /\ \A i \in 1..Len(tokens) : tokens[i].bound
    /\ stopCalls = 1 /\ lastOp.op = "stop" /\ ~lastOp.raised
    /\ NoTransportFailure

\* C29: after start, any handle_token calls and exactly one stop, with no
\* transport errors, the texts appended to the transport, joined in order,
\* are the pushed tokens joined, with the line-leading "thought:" markers
\* removed.
C29_NothingLost ==
    StreamedToStop =>
        Concat(Texts(appends)) = CleanThought(Concat(Contents(tokens)))

\* a call of handle_token that took a token in and left the buffer empty
BufferEmptied ==
    /\ Len(tokens') = Len(tokens) + 1
    /\ ~lastOp'.raised
    /\ buffer' = <<>>

\* C30: the buffer is cleared only if sent.  In every step that empties the
\* buffer, the cleaned buffer content was handed to the transport's append
\* and the append succeeded; so tokens pushed while no handle is bound are
\* not discarded, and a buffer whose cleaned text is empty is kept.
C30_ClearedOnlyIfSent ==
    [][BufferEmptied =>
          /\ Len(appends') = Len(appends) + 1
          /\ appends'[Len(appends')].ok
          /\ appends'[Len(appends')].text
                = CleanThought(buffer \o tokens'[Len(tokens')].content)]_vars

====
